---- MODULE Spec2Model ----
(***************************************************************************)
(* A model of the Hunta search backend (JakeHunta/huntabackend1.0):        *)
(*   - fetchPage, the retrying page-fetch primitive  (scrapingService.js)  *)
(*   - the POST /search handler and the daily quota gate      (server.js)  *)
(*   - SearchService.performSearch and its helpers     (searchService.js)  *)
(* Strings are sequences of one-character strings, so that trimming,       *)
(* lower-casing, substring search and the price regexes are computed.      *)
(* Scores are integers in hundredths (0.30 is 30): every term of the score *)
(* is a multiple of 0.05, so Math.round(score * 100) is exact.             *)
(***************************************************************************)
EXTENDS Integers, Sequences, FiniteSets, TLC

VARIABLES
  \* ---- fetchPage (one call) ----
  fpPc,          \* "idle" | "request" | "wait" | "returned" | "threw"
  maxRetries,    \* options.maxRetries (default 5)
  apiKeySet,     \* whether process.env.SCRAPINGBEE_API_KEY is set
  attempt,       \* the local variable attempt
  fpRequests,    \* number of axios.get calls issued by this call (history)
  fpFailures,    \* the failure kind of each failed attempt, in order (history)
  fpWait,        \* the timer armed by the latest failure, in ms (0: none)
  \* ---- SearchService.performSearch (one call) ----
  spPc,          \* "idle" | "enhancing" | "fetching" | "delay" | "fetched" | "returned" | "threw"
  searchTerm,    \* the parameter searchTerm
  currency,      \* the parameter currency
  enhancedQuery, \* enhancedQuery.search_terms
  allSearchTerms,\* the phrases of the loop
  termIdx,       \* the index in allSearchTerms of the phrase being fetched
  fetches,       \* per source of the current phrase: what fn did and what the wrapper returned
  allResults,    \* the working set
  uniqueResults, \* deduplicateResults(allResults)
  scoredResults, \* scoreResults(uniqueResults, ...)
  filtered,      \* sorted, thresholded, cut to 30
  converted,     \* the value performSearch returns
  hist,          \* history of the call: fetches invoked, listings returned by the
                 \* sources, listings of the current phrase in the order they arrived
  \* ---- the POST /search handler and the quota gate ----
  reqs,          \* the /search requests received, in order of arrival
  quota,         \* the QuotaRecords: (identity, UTC day) -> count
  today,         \* the current UTC day
  \* ---- OpenAIService.enhanceSearchQuery ----
  enhCalls,      \* the enhanceSearchQuery calls made, in order of their start
  cache,         \* this.cache: query -> enhanced query
  lastEnhancedQuery, \* this.lastEnhancedQuery of the one SearchService
  \* ---- SearchService.tryGoogleShoppingSearch (one call) ----
  gsPc,          \* "idle" | "called" | "done"
  gsTerm,        \* the parameter term
  gsKeySet,      \* whether RAPIDAPI_GOOGLE_SHOPPING_KEY is set
  gsHttp,        \* what the API answers to the first, second, third request
  gsRun,         \* what the call did: calls of search, requests, waits, outcome
  \* ---- searchNicheMarketplaces (one call) ----
  nsPc,          \* "idle" | "google" | "scraping" | "returned" | "threw"
  googleLinks,   \* the decoded links of the Google result page, in page order
  listingUrls,   \* extractGoogleResultLinks(googleHtml)
  nsIdx,         \* the position in listingUrls of the URL being scraped
  scraped,       \* the URLs scrapeListingPage was called with, in order (history)
  nicheResults   \* the local variable results

fetchVars == <<fpPc, maxRetries, apiKeySet, attempt, fpRequests, fpFailures, fpWait>>

searchVars == <<spPc, searchTerm, currency, enhancedQuery, allSearchTerms, termIdx,
                fetches, allResults, uniqueResults, scoredResults, filtered,
                converted, hist>>

serverVars == <<reqs, quota, today>>

enhanceVars == <<enhCalls, cache, lastEnhancedQuery>>

googleVars == <<gsPc, gsTerm, gsKeySet, gsHttp, gsRun>>

nicheVars == <<nsPc, googleLinks, listingUrls, nsIdx, scraped, nicheResults>>

vars == <<fetchVars, searchVars, serverVars, enhanceVars, googleVars, nicheVars>>

(***************************************************************************)
(* The parts of the program a specification leaves alone stay as they are  *)
(* after construction.                                                     *)
(***************************************************************************)
\* no fetchPage call is under way
FetchIdle ==
  /\ fpPc = "idle"
  /\ maxRetries = 0
  /\ apiKeySet = TRUE
  /\ attempt = 0
  /\ fpRequests = 0
  /\ fpFailures = <<>>
  /\ fpWait = 0

\* no performSearch call is under way
SearchIdle ==
  /\ spPc = "idle"
  /\ searchTerm = <<>>
  /\ currency = "GBP"
  /\ enhancedQuery = <<>>
  /\ allSearchTerms = <<>>
  /\ termIdx = 0
  /\ fetches = <<>>
  /\ allResults = <<>>
  /\ uniqueResults = <<>>
  /\ scoredResults = <<>>
  /\ filtered = <<>>
  /\ converted = <<>>
  /\ hist = [invoked |-> 0, returned |-> <<>>, thrown |-> "", arrived |-> <<>>]

\* no request has been received, no quota used
ServerIdle ==
  /\ reqs = <<>>
  /\ quota = <<>>
  /\ today = 0

\* the value null
nullBody == [kind |-> "null", isArray |-> FALSE, search_terms |-> <<>>]

\* the enhancer has not been called, its cache is empty; the constructor of
\* SearchService has set lastEnhancedQuery to null
EnhanceIdle ==
  /\ enhCalls = <<>>
  /\ cache = <<>>
  /\ lastEnhancedQuery = nullBody

\* tryGoogleShoppingSearch has not been called
GoogleIdle ==
  /\ gsPc = "idle"
  /\ gsTerm = <<>>
  /\ gsKeySet = TRUE
  /\ gsHttp = <<>>
  /\ gsRun = [attempts |-> 0, requests |-> 0, waits |-> <<>>, outcome |-> "", value |-> <<>>]

\* searchNicheMarketplaces has not been called
NicheIdle ==
  /\ nsPc = "idle"
  /\ googleLinks = <<>>
  /\ listingUrls = <<>>
  /\ nsIdx = 0
  /\ scraped = <<>>
  /\ nicheResults = <<>>

(***************************************************************************)
(* Bounds of the model.                                                    *)
(***************************************************************************)
MaxRetriesArg == 2       \* options.maxRetries is drawn from 0..MaxRetriesArg, or left out
MaxInput == 3            \* longest working set drawn from the listing pool
BulkSize == 32           \* size of the large working set (more than 30 listings)
MaxRequests == 3         \* /search requests received
MaxDay == 1              \* UTC days that pass
MaxEnhanceCalls == 2     \* enhanceSearchQuery calls made
MaxRefillCalls == 3      \* enhanceSearchQuery calls made for one term
MaxHandlerRequests == 2  \* /search requests received under SpecHandler
MaxLinks == 3            \* links of the Google result page

(***************************************************************************)
(* fetchPage                                    scrapingService.js 19-95   *)
(***************************************************************************)
DefaultMaxRetries == 5
baseDelay == 1000
rateLimitDelay == 10000
JitterRange == 1000

\* Math.floor(Math.random() * 1000): any integer of 0..999; the two ends stand for it
Jitters == {0, JitterRange - 1}

FailureKinds == {"429", "other"}

RECURSIVE Pow2(_)
Pow2(n) == IF n <= 0 THEN 1 ELSE 2 * Pow2(n - 1)

\* while (attempt <= maxRetries)
LoopContinues(a, m) == a <= m

\* if (attempt > maxRetries) throw error
Exhausted_early(a, m) == a >= m
Exhausted(a, m) == a > m

\* attempt++
NextAttempt_stuck(a) == a
NextAttempt(a) == a + 1

\* the wait armed after a failure of kind k at attempt a, with jitter j
WaitTime_flat(k, a, j) ==
  IF k = "429" THEN rateLimitDelay + j ELSE baseDelay * a
WaitTime(k, a, j) ==
  IF k = "429" THEN rateLimitDelay * Pow2(a - 1) + j ELSE baseDelay * a

\* the loop head up to the next await: either a request is issued, or the loop
\* is left and line 94 throws
LoopHead ==
  IF LoopContinues(attempt, maxRetries)
  THEN /\ attempt' = NextAttempt(attempt)
       /\ fpRequests' = fpRequests + 1
       /\ fpPc' = "request"
  ELSE /\ fpPc' = "threw"
       /\ UNCHANGED <<attempt, fpRequests>>

\* fetchPage(url, options) up to its first await
FetchPageCall ==
  /\ fpPc = "idle"
  /\ fpWait' = 0
  /\ UNCHANGED <<maxRetries, apiKeySet, fpFailures, searchVars, serverVars, enhanceVars, googleVars, nicheVars>>
  /\ IF ~apiKeySet
     THEN /\ fpPc' = "threw"
          /\ UNCHANGED <<attempt, fpRequests>>
     ELSE LoopHead

\* axios.get resolves: return response.data
ResponseOk ==
  /\ fpPc = "request"
  /\ fpPc' = "returned"
  /\ UNCHANGED <<maxRetries, apiKeySet, attempt, fpRequests, fpFailures, fpWait, searchVars, serverVars, enhanceVars, googleVars, nicheVars>>

\* axios.get rejects (or the try block throws): the catch block
ResponseError(k, j) ==
  /\ fpPc = "request"
  /\ fpFailures' = Append(fpFailures, k)
  /\ IF Exhausted(attempt, maxRetries)
     THEN /\ fpPc' = "threw"
          /\ fpWait' = 0
     ELSE /\ fpPc' = "wait"
          /\ fpWait' = WaitTime(k, attempt, j)
  /\ UNCHANGED <<maxRetries, apiKeySet, attempt, fpRequests, searchVars, serverVars, enhanceVars, googleVars, nicheVars>>

\* the backoff timer fires: back to the loop head
TimerFired ==
  /\ fpPc = "wait"
  /\ fpWait' = 0
  /\ UNCHANGED <<maxRetries, apiKeySet, fpFailures, searchVars, serverVars, enhanceVars, googleVars, nicheVars>>
  /\ LoopHead

FetchInit ==
  /\ EnhanceIdle
  /\ GoogleIdle
  /\ NicheIdle
  /\ fpPc = "idle"
  /\ maxRetries \in (0..MaxRetriesArg) \cup {DefaultMaxRetries}
  /\ apiKeySet \in BOOLEAN
  /\ attempt = 0
  /\ fpRequests = 0
  /\ fpFailures = <<>>
  /\ fpWait = 0
  /\ SearchIdle
  /\ ServerIdle

FetchNext ==
  \/ FetchPageCall
  \/ ResponseOk
  \/ \E k \in FailureKinds, j \in Jitters : ResponseError(k, j)
  \/ TimerFired

SpecFetch == FetchInit /\ [][FetchNext]_vars

(***************************************************************************)
(* Strings: a string is a sequence of one-character strings.               *)
(***************************************************************************)
Pound == "pound"     \* the pound sign
Euro == "euro"       \* the euro sign
Dollar == "$"

Whitespace == {" ", "\t"}
Digits == {"0", "1", "2", "3", "4", "5", "6", "7", "8", "9"}
UpperCase == <<"A", "B", "C", "D", "E", "F", "G", "H", "I", "J", "K", "L", "M",
               "N", "O", "P", "Q", "R", "S", "T", "U", "V", "W", "X", "Y", "Z">>
LowerCase == <<"a", "b", "c", "d", "e", "f", "g", "h", "i", "j", "k", "l", "m",
               "n", "o", "p", "q", "r", "s", "t", "u", "v", "w", "x", "y", "z">>

LowerChar(c) ==
  IF \E i \in 1..26 : UpperCase[i] = c
  THEN LowerCase[CHOOSE i \in 1..26 : UpperCase[i] = c]
  ELSE c

\* String.prototype.toLowerCase
toLowerCase(s) == [i \in 1..Len(s) |-> LowerChar(s[i])]

RECURSIVE trimStart(_)
trimStart(s) ==
  IF s # <<>> /\ Head(s) \in Whitespace THEN trimStart(Tail(s)) ELSE s

RECURSIVE trimEnd(_)
trimEnd(s) ==
  IF s # <<>> /\ s[Len(s)] \in Whitespace THEN trimEnd(SubSeq(s, 1, Len(s) - 1)) ELSE s

\* String.prototype.trim
trim(s) == trimEnd(trimStart(s))

\* s.replace(/\s+/g, ' '): every maximal run of whitespace becomes one space
RECURSIVE collapseWhitespace(_)
collapseWhitespace(s) ==
  IF s = <<>> THEN <<>>
  ELSE IF Head(s) \in Whitespace
       THEN <<" ">> \o collapseWhitespace(trimStart(s))
       ELSE <<Head(s)>> \o collapseWhitespace(Tail(s))

\* String.prototype.includes
includes(s, sub) ==
  \E i \in 0..(Len(s) - Len(sub)) : SubSeq(s, i + 1, i + Len(sub)) = sub

\* s.split(/\s+/): an empty string gives [""], a leading or trailing run of
\* whitespace gives an empty first or last token
RECURSIVE splitWhitespace(_)
splitWhitespace(s) ==
  IF \A i \in 1..Len(s) : s[i] \notin Whitespace
  THEN <<s>>
  ELSE LET i == CHOOSE k \in 1..Len(s) :
                  /\ s[k] \in Whitespace
                  /\ \A m \in 1..(k - 1) : s[m] \notin Whitespace
       IN <<SubSeq(s, 1, i - 1)>> \o splitWhitespace(trimStart(SubSeq(s, i, Len(s))))

\* /\d/.test(p)
hasDigit(p) == \E i \in 1..Len(p) : p[i] \in Digits

\* price.match(/[\d,]+(?:\.\d{2})?/): the leftmost longest run of digits and
\* commas, with a following ".dd" when there is one; <<>> when nothing matches
numberMatch(price) ==
  IF \A i \in 1..Len(price) : price[i] \notin (Digits \cup {","})
  THEN <<>>
  ELSE LET from == CHOOSE k \in 1..Len(price) :
                     /\ price[k] \in (Digits \cup {","})
                     /\ \A m \in 1..(k - 1) : price[m] \notin (Digits \cup {","})
           to == CHOOSE k \in from..Len(price) :
                   /\ \A m \in from..k : price[m] \in (Digits \cup {","})
                   /\ (k = Len(price) \/ price[k + 1] \notin (Digits \cup {","}))
           cents == /\ to + 3 <= Len(price)
                    /\ price[to + 1] = "."
                    /\ price[to + 2] \in Digits
                    /\ price[to + 3] \in Digits
       IN SubSeq(price, from, IF cents THEN to + 3 ELSE to)

(***************************************************************************)
(* SearchService: deduplicate, score, filter, convert                      *)
(*                                            searchService.js 259-346     *)
(* A listing is [title, price, link, image, source]; a field that is       *)
(* undefined, null or '' is <<>>.  No source fetcher sets description.     *)
(***************************************************************************)
scoreThreshold == 30   \* r.score >= 0.3
maxListings == 30      \* .slice(0, 30)
shortTitle == 20       \* result.title.length < 20

\* if (!result.title || !result.price || !result.link) return false
hasRequiredFields_noLink(result) == result.title # <<>> /\ result.price # <<>>
hasRequiredFields(result) ==
  result.title # <<>> /\ result.price # <<>> /\ result.link # <<>>

\* the deduplication key, a template string
dedupeKey(result) ==
  collapseWhitespace(trim(toLowerCase(result.title)))
    \o <<"-">> \o trim(toLowerCase(result.price))

\* the same filter when a key found in seen is taken out of it again
RECURSIVE dedupeFrom_forgets(_, _)
dedupeFrom_forgets(results, seen) ==
  IF results = <<>> THEN <<>>
  ELSE LET result == Head(results)
       IN IF ~hasRequiredFields(result) THEN dedupeFrom_forgets(Tail(results), seen)
          ELSE IF dedupeKey(result) \in seen
          THEN dedupeFrom_forgets(Tail(results), seen \ {dedupeKey(result)})
          ELSE <<result>> \o dedupeFrom_forgets(Tail(results), seen \cup {dedupeKey(result)})

\* results.filter(...) with the Set seen
RECURSIVE dedupeFrom(_, _)
dedupeFrom(results, seen) ==
  IF results = <<>> THEN <<>>
  ELSE LET result == Head(results)
       IN IF ~hasRequiredFields(result) THEN dedupeFrom(Tail(results), seen)
          ELSE IF dedupeKey(result) \in seen THEN dedupeFrom(Tail(results), seen)
          ELSE <<result>> \o dedupeFrom(Tail(results), seen \cup {dedupeKey(result)})

\* the same filter when seen.add(key) is left out
RECURSIVE dedupeFrom_noAdd(_, _)
dedupeFrom_noAdd(results, seen) ==
  IF results = <<>> THEN <<>>
  ELSE LET result == Head(results)
       IN IF ~hasRequiredFields(result) THEN dedupeFrom_noAdd(Tail(results), seen)
          ELSE <<result>> \o dedupeFrom_noAdd(Tail(results), seen)

deduplicateResults_noAdd(results) == dedupeFrom_noAdd(results, {})
deduplicateResults(results) == dedupeFrom(results, {})

\* result.description || '': no fetcher sets a description
descriptionOf(result) == <<>>

RECURSIVE sumOver(_, _, _, _, _)
\* the forEach loops of scoreResults: inTitle for a term in the title,
\* inDescription for a term in the description
sumOver(terms, title, description, inTitle, inDescription) ==
  IF terms = <<>> THEN 0
  ELSE (IF includes(title, Head(terms)) THEN inTitle ELSE 0)
       + (IF includes(description, Head(terms)) THEN inDescription ELSE 0)
       + sumOver(Tail(terms), title, description, inTitle, inDescription)

\* if (result.source === 'ebay') score += 0.1
sourceBonus(result) == IF result.source = "ebay" THEN 10 ELSE 0

\* the score of one result, in hundredths, before clamping
rawScore(result, originalQuery, enhanced) ==
  LET title == toLowerCase(result.title)
      description == toLowerCase(descriptionOf(result))
      queryTerms == splitWhitespace(toLowerCase(originalQuery))
      enhancedTerms == [i \in 1..Len(enhanced) |-> toLowerCase(enhanced[i])]
  IN 5
     + sumOver(queryTerms, title, description, 30, 10)
     + sumOver(enhancedTerms, title, description, 20, 5)
     + (IF includes(title, toLowerCase(originalQuery)) THEN 40 ELSE 0)
     + (IF result.image # <<>> THEN 5 ELSE 0)
     - (IF Len(result.title) < shortTitle THEN 20 ELSE 0)
     + sourceBonus(result)

\* Math.min(1, Math.max(0, score))
clamp_none(score) == score
clamp(score) == IF score < 0 THEN 0 ELSE IF score > 100 THEN 100 ELSE score

withScore(result, score) ==
  [title |-> result.title, price |-> result.price, link |-> result.link,
   image |-> result.image, source |-> result.source, score |-> score]

scoreResults(results, originalQuery, enhanced) ==
  [i \in 1..Len(results) |->
     withScore(results[i], clamp(rawScore(results[i], originalQuery, enhanced)))]

\* the comparator (a, b) => b.score - a.score puts a after b when this holds
sortsAfter(a, b) == b.score > a.score

\* Array.prototype.sort is stable: x goes before the first element that must
\* come after it
RECURSIVE insertSorted(_, _)
insertSorted(sorted, x) ==
  IF sorted = <<>> THEN <<x>>
  ELSE IF sortsAfter(Head(sorted), x) THEN <<x>> \o sorted
       ELSE <<Head(sorted)>> \o insertSorted(Tail(sorted), x)

RECURSIVE sortFrom(_, _)
sortFrom(sorted, rest) ==
  IF rest = <<>> THEN sorted ELSE sortFrom(insertSorted(sorted, Head(rest)), Tail(rest))

sortByScore(results) == sortFrom(<<>>, results)

\* .filter(r => r.score >= 0.3)
aboveThreshold_none(r) == TRUE
aboveThreshold(r) == r.score >= scoreThreshold

\* .slice(0, 30)
topListings_all(results) == results
topListings(results) ==
  SubSeq(results, 1, IF Len(results) < maxListings THEN Len(results) ELSE maxListings)

filterAndSort(scored) ==
  topListings(SelectSeq(sortByScore(scored), aboveThreshold))

\* symbols[targetCurrency] || ''
symbolOf(targetCurrency) ==
  CASE targetCurrency = "GBP" -> <<Pound>>
    [] targetCurrency = "USD" -> <<Dollar>>
    [] targetCurrency = "EUR" -> <<Euro>>
    [] OTHER -> <<>>

hasCurrencySymbol(price) ==
  \E i \in 1..Len(price) : price[i] \in {Pound, Dollar, Euro}

ensureCurrencyFormat(price, symbol) ==
  IF price = <<>> THEN price
  ELSE IF includes(price, symbol) THEN price
  ELSE IF numberMatch(price) # <<>> /\ ~hasCurrencySymbol(price)
       THEN symbol \o numberMatch(price)
       ELSE price

\* the filter of convertCurrency
keepsPrice(p, targetCurrency) ==
  IF targetCurrency = "GBP"
  THEN includes(p, <<Pound>>)
         \/ (~includes(p, <<Dollar>>) /\ ~includes(p, <<Euro>>) /\ hasDigit(p))
  ELSE includes(p, symbolOf(targetCurrency))

convertCurrency(results, targetCurrency) ==
  LET kept == SelectSeq(results, LAMBDA r : keepsPrice(r.price, targetCurrency))
  IN [i \in 1..Len(kept) |->
        [kept[i] EXCEPT !.price = ensureCurrencyFormat(@, symbolOf(targetCurrency))]]

\* a search term is a string, or the JSON number numberTerm
numberTerm == <<"5 (number)">>
isString(term) == term # numberTerm

\* enhancedQuery.search_terms.map(t => t.toLowerCase()), line 298, throws a
\* TypeError on a search term that is not a string
scoreResultsThrows(enhanced) == \E i \in 1..Len(enhanced) : ~isString(enhanced[i])

scoringError == "Search failed: t.toLowerCase is not a function"

\* performSearch once every phrase has been fetched: lines 259-282, which
\* hold no await.  An error thrown on the way is wrapped by the catch block.
FinishSearch ==
  /\ spPc = "fetched"
  /\ IF allResults = <<>>
     THEN /\ spPc' = "returned"
          /\ UNCHANGED <<uniqueResults, scoredResults, filtered, converted, hist>>
     ELSE IF scoreResultsThrows(enhancedQuery)
     THEN /\ spPc' = "threw"
          /\ uniqueResults' = deduplicateResults(allResults)
          /\ hist' = [hist EXCEPT !.thrown = scoringError]
          /\ UNCHANGED <<scoredResults, filtered, converted>>
     ELSE /\ spPc' = "returned"
          /\ uniqueResults' = deduplicateResults(allResults)
          /\ scoredResults' = scoreResults(uniqueResults', searchTerm, enhancedQuery)
          /\ filtered' = filterAndSort(scoredResults')
          /\ converted' = convertCurrency(filtered', currency)
          /\ UNCHANGED hist
  /\ UNCHANGED <<searchTerm, currency, enhancedQuery, allSearchTerms, termIdx,
                 fetches, allResults, fetchVars, googleVars, nicheVars, serverVars, enhanceVars>>

(***************************************************************************)
(* The end of performSearch over working sets drawn from a pool of         *)
(* listings: every sequence of at most MaxInput pool listings, and one     *)
(* large working set of BulkSize distinct listings.                        *)
(***************************************************************************)
listing(title, price, link, image, source) ==
  [title |-> title, price |-> price, link |-> link, image |-> image, source |-> source]

cam == <<"c", "a", "m">>
box == <<"b", "o", "x">>

ListingPool ==
  { listing(<<"C", "a", "m">>, <<Pound, "5">>, <<"a">>, <<"i">>, "ebay"),
    listing(cam, <<Pound, "5">>, <<"b">>, <<>>, "vinted"),
    listing(<<" ", "C", "a", "m">>, <<Pound, "5", " ">>, <<"f">>, <<>>, "google_shopping"),
    listing(cam, <<"5">>, <<"c">>, <<>>, "vinted"),
    listing(cam, <<Dollar, "5">>, <<"h">>, <<>>, "vinted"),
    listing(<<"b", "o", "x">>, <<Pound, "5">>, <<"e">>, <<>>, "vinted"),
    listing(cam, <<Pound, "5">>, <<>>, <<>>, "google_shopping"),
    listing(<<>>, <<Pound, "5">>, <<"d">>, <<>>, "google_shopping"),
    listing(cam, <<>>, <<"g">>, <<>>, "ebay"),
    listing(cam, <<"G", "B", "P", " ", "5">>, <<"j">>, <<"i">>, "ebay_api") }

RECURSIVE SeqsUpTo(_, _)
SeqsUpTo(S, n) ==
  IF n = 0 THEN {<<>>}
  ELSE LET shorter == SeqsUpTo(S, n - 1)
       IN shorter \cup {Append(q, x) : q \in shorter, x \in S}

digitChar(n) == <<"0", "1", "2", "3", "4", "5", "6", "7", "8", "9">>[n + 1]

\* the i-th listing of the large working set: a title of 22 characters that
\* holds "cam" (the first listing has the short title "box 01"), with and
\* without an image, from ebay and from vinted, priced with and without a
\* currency symbol
bulkTitle == <<"c", "a", "m", " ", "l", "e", "n", "s", " ", "f", "o", "r", " ",
               "s", "l", "r", " ", "n", "o", " ">>

bulkListing(i) ==
  listing((IF i = 1 THEN box \o <<" ">> ELSE bulkTitle)
            \o <<digitChar(i \div 10), digitChar(i % 10)>>,
          IF i % 5 = 0 THEN <<"5", ".", "5">> ELSE <<Pound, "5">>,
          <<"k", digitChar(i \div 10), digitChar(i % 10)>>,
          IF i % 2 = 0 THEN <<"i">> ELSE <<>>,
          IF i % 3 = 0 THEN "ebay" ELSE "vinted")

BulkWorkingSet == [i \in 1..BulkSize |-> bulkListing(i)]

\* two listings whose titles and prices differ and hold a hyphen: a Vinted
\* listing "cam" priced "GBP 5-GBP 9" and a Google Shopping listing
\* "cam-GBP 5" priced "GBP 9"
HyphenWorkingSet ==
  << listing(cam, <<"G", "B", "P", " ", "5", "-", "G", "B", "P", " ", "9">>,
             <<"m">>, <<"i">>, "vinted"),
     listing(cam \o <<"-", "G", "B", "P", " ", "5">>, <<"G", "B", "P", " ", "9">>,
             <<"n">>, <<"i">>, "google_shopping") >>

\* listings priced in the currency-code form `${currency} ${value}` of the API
\* sources, in a currency other than pounds
ForeignWorkingSet ==
  << listing(cam, <<"U", "S", "D", " ", "5">>, <<"u">>, <<"i">>, "google_shopping"),
     listing(cam, <<"E", "U", "R", " ", "9">>, <<"v">>, <<"i">>, "ebay_api") >>

WorkingSets ==
  SeqsUpTo(ListingPool, MaxInput)
    \cup {BulkWorkingSet, HyphenWorkingSet, ForeignWorkingSet}

SearchTerms == {cam}
Currencies == {"GBP", "USD", "EUR", "JPY"}

\* OpenAIService.getFallbackEnhancement            nicheSearchService.js 137-145
getFallbackEnhancement(query) ==
  <<query, query \o <<" ", "r", "a", "r", "e">>, <<"u", "s", "e", "d", " ">> \o query>>

EnhancedChoices(term) == {<<>>, getFallbackEnhancement(term)}

\* [searchTerm, ...enhancedQuery.search_terms].slice(0, 5)
maxSearchTerms == 5
searchTermsOf_enhancedFirst(term, enhanced) ==
  LET all == enhanced \o <<term>>
  IN SubSeq(all, 1, IF Len(all) < maxSearchTerms THEN Len(all) ELSE maxSearchTerms)
searchTermsOf(term, enhanced) ==
  LET all == <<term>> \o enhanced
  IN SubSeq(all, 1, IF Len(all) < maxSearchTerms THEN Len(all) ELSE maxSearchTerms)

PipelineInit ==
  /\ EnhanceIdle
  /\ GoogleIdle
  /\ NicheIdle
  /\ FetchIdle
  /\ ServerIdle
  /\ spPc = "fetched"
  /\ searchTerm \in SearchTerms
  /\ currency \in Currencies
  /\ enhancedQuery \in EnhancedChoices(searchTerm)
  /\ allSearchTerms = searchTermsOf(searchTerm, enhancedQuery)
  /\ termIdx = Len(allSearchTerms)
  /\ fetches = <<>>
  /\ allResults \in WorkingSets
  /\ uniqueResults = <<>>
  /\ scoredResults = <<>>
  /\ filtered = <<>>
  /\ converted = <<>>
  /\ hist = [invoked |-> 0, returned |-> <<>>, thrown |-> "", arrived |-> <<>>]

PipelineNext == FinishSearch

SpecPipeline == PipelineInit /\ [][PipelineNext]_vars

(***************************************************************************)
(* OpenAIService.enhanceSearchQuery          nicheSearchService.js 87-146  *)
(* Calls may overlap; they share this.cache.  The body of the completion   *)
(* is held as what JSON.parse makes of it.                                 *)
(***************************************************************************)
unparsable == [kind |-> "unparsable", isArray |-> FALSE, search_terms |-> <<>>]
noTermsObject == [kind |-> "object", isArray |-> FALSE, search_terms |-> <<>>]
termsObject(terms) == [kind |-> "object", isArray |-> TRUE, search_terms |-> terms]

EnhanceQueries == {cam, box}

\* six phrases, more than performSearch takes
sixTerms(query) ==
  [i \in 1..6 |-> query \o <<" ", digitChar(i)>>]

rejected == [rejects |-> TRUE, body |-> nullBody]
resolved(body) == [rejects |-> FALSE, body |-> body]

\* what openai.chat.completions.create does: it rejects (network failure,
\* error status), or resolves with a body
CompletionOutcomes(query) ==
  {rejected} \cup
  { resolved(body) : body \in { unparsable, nullBody, noTermsObject,
                                termsObject(<<>>),
                                termsObject(sixTerms(query)),
                                termsObject(<<numberTerm>>) } }

\* enhancedQuery && Array.isArray(enhancedQuery.search_terms)
wellFormed(value) == value.kind = "object" /\ value.isArray

fallbackEnhancement(query) == termsObject(getFallbackEnhancement(query))

\* this.cache.has(query)
cacheHas_never(query) == FALSE
cacheHas(query) == query \in DOMAIN cache

\* lines 98-134: the value the call resolves with and whether line 129
\* stores it in the cache
enhancementOf_firstWins(query, outcome) ==
  IF outcome.rejects
  THEN [result |-> fallbackEnhancement(query), cached |-> FALSE]
  ELSE LET parsed == IF outcome.body.kind = "unparsable"
                     THEN fallbackEnhancement(query) ELSE outcome.body
       IN [result |-> IF wellFormed(parsed) THEN parsed ELSE fallbackEnhancement(query),
           cached |-> ~cacheHas(query)]
enhancementOf_cachesThrown(query, outcome) ==
  IF outcome.rejects
  THEN [result |-> fallbackEnhancement(query), cached |-> TRUE]
  ELSE LET parsed == IF outcome.body.kind = "unparsable"
                     THEN fallbackEnhancement(query) ELSE outcome.body
       IN [result |-> IF wellFormed(parsed) THEN parsed ELSE fallbackEnhancement(query),
           cached |-> TRUE]
enhancementOf(query, outcome) ==
  IF outcome.rejects
  THEN [result |-> fallbackEnhancement(query), cached |-> FALSE]
  ELSE LET parsed == IF outcome.body.kind = "unparsable"
                     THEN fallbackEnhancement(query) ELSE outcome.body
       IN [result |-> IF wellFormed(parsed) THEN parsed ELSE fallbackEnhancement(query),
           cached |-> TRUE]

noOutcome == [rejects |-> FALSE, body |-> [kind |-> "none", isArray |-> FALSE, search_terms |-> <<>>]]

\* lines 208-211, 216-218 of performSearch: an ill-formed enhancement is
\* replaced by no search terms
enhancedQueryOf(value) == IF wellFormed(value) THEN value.search_terms ELSE <<>>

\* the calls for this query that are waiting for the service
inFlightFor(query) ==
  {c \in 1..Len(enhCalls) : enhCalls[c].pc = "awaiting" /\ enhCalls[c].query = query}

\* lines 93-97: a call starts; a cached query is answered from the cache,
\* any other goes to the service.  The call records the calls for the same
\* query that were in flight when it started.
enhanceSearchQuery(query) ==
  /\ enhCalls' = Append(enhCalls,
       IF cacheHas(query)
       THEN [query |-> query, pc |-> "resolved", outbound |-> 0, service |-> noOutcome,
             result |-> cache[query], allSearchTerms |-> <<>>,
             overlaps |-> inFlightFor(query)]
       ELSE [query |-> query, pc |-> "awaiting", outbound |-> 1, service |-> noOutcome,
             result |-> nullBody, allSearchTerms |-> <<>>,
             overlaps |-> inFlightFor(query)])
  /\ UNCHANGED <<cache, lastEnhancedQuery, fetchVars, googleVars, nicheVars, searchVars, serverVars>>

\* lines 107-134: the completion of call c settles
CompletionSettles(c, outcome) ==
  /\ enhCalls[c].pc = "awaiting"
  /\ LET query == enhCalls[c].query
         enhancement == enhancementOf(query, outcome)
     IN /\ enhCalls' = [enhCalls EXCEPT ![c] =
                          [@ EXCEPT !.pc = "resolved", !.service = outcome,
                                    !.result = enhancement.result]]
        /\ cache' = IF enhancement.cached
                    THEN [q \in DOMAIN cache \cup {query} |->
                            IF q = query THEN enhancement.result ELSE cache[q]]
                    ELSE cache
  /\ UNCHANGED <<lastEnhancedQuery, fetchVars, googleVars, nicheVars, searchVars, serverVars>>

\* searchService.js 208-225: performSearch takes the enhancement of call c
\* and lists the phrases to fetch
PhrasesListed(c) ==
  /\ enhCalls[c].pc = "resolved"
  /\ enhCalls' = [enhCalls EXCEPT ![c] =
       [@ EXCEPT !.pc = "listed",
                 !.allSearchTerms =
                   searchTermsOf(enhCalls[c].query,
                                 enhancedQueryOf(enhCalls[c].result))]]
  /\ lastEnhancedQuery' = termsObject(enhancedQueryOf(enhCalls[c].result))
  /\ UNCHANGED <<cache, fetchVars, googleVars, nicheVars, searchVars, serverVars>>

EnhanceInit ==
  /\ EnhanceIdle
  /\ GoogleIdle
  /\ NicheIdle
  /\ FetchIdle
  /\ SearchIdle
  /\ ServerIdle

EnhanceNext ==
  \/ \E query \in EnhanceQueries :
       Len(enhCalls) < MaxEnhanceCalls /\ enhanceSearchQuery(query)
  \/ \E c \in 1..Len(enhCalls) :
       \E outcome \in CompletionOutcomes(enhCalls[c].query) : CompletionSettles(c, outcome)
  \/ \E c \in 1..Len(enhCalls) : PhrasesListed(c)

SpecEnhance == EnhanceInit /\ [][EnhanceNext]_vars

(***************************************************************************)
(* Repeated enhanceSearchQuery calls for one term: the service throws,     *)
(* answers with text that is not JSON, with JSON without search_terms, or  *)
(* with six phrases.                                                       *)
(***************************************************************************)
RefillOutcomes(query) ==
  {rejected, resolved(unparsable), resolved(noTermsObject),
   resolved(termsObject(sixTerms(query)))}

RefillNext ==
  \/ Len(enhCalls) < MaxRefillCalls /\ enhanceSearchQuery(cam)
  \/ \E c \in 1..Len(enhCalls) :
       \E outcome \in RefillOutcomes(enhCalls[c].query) : CompletionSettles(c, outcome)

SpecRefill == EnhanceInit /\ [][RefillNext]_vars

(***************************************************************************)
(* performSearch from its call to its return     searchService.js 201-283  *)
(* The phrases are fetched one after the other; for one phrase every       *)
(* source is called at once and the calls settle in any order.             *)
(***************************************************************************)
sources == <<"ebay", "discogs", "vinted", "depop", "gumtree", "google_shopping">>

\* what the call source.fn(term) can do.  The scrapers throw when fetchPage
\* throws.  The price pattern of searchEbay, searchDiscogs, searchDepop and
\* searchGumtree has no group, so safeMatch gives null for every price and
\* each of them returns an empty list; searchVinted returns the items of the
\* page; GoogleShoppingService.search catches every error and returns [].
threw == [threw |-> TRUE, results |-> <<>>]
returned(results) == [threw |-> FALSE, results |-> results]

vintedItems(term) ==
  <<listing(term, <<Pound, "5">>, <<"v">>, <<"i">>, "vinted")>>
googleItems(term) ==
  <<listing(term, <<"G", "B", "P", " ", "5">>, <<"g">>, <<"i">>, "google_shopping")>>

SourceOutcomes(name, term) ==
  IF name = "vinted" THEN {threw, returned(<<>>), returned(vintedItems(term))}
  ELSE IF name = "google_shopping" THEN {returned(<<>>), returned(googleItems(term))}
  ELSE {threw, returned(<<>>)}

\* the value of the async wrapper of one source: the results, or [] from its
\* catch block; it never rejects
wrapperValue_rethrows(did) ==
  [rejected |-> did.threw, value |-> did.results]
wrapperValue(did) ==
  [rejected |-> FALSE, value |-> IF did.threw THEN <<>> ELSE did.results]

fetchError == "Search failed: Request failed with status code 500"

pendingFetch ==
  [state |-> "pending", threw |-> FALSE, results |-> <<>>, rejected |-> FALSE, value |-> <<>>]

\* sources.map(async (source) => ...) calls every source.fn(term) before
\* Promise.all is awaited
launchAll == [s \in 1..Len(sources) |-> pendingFetch]

RECURSIVE concatAll(_)
concatAll(lists) ==
  IF lists = <<>> THEN <<>> ELSE Head(lists) \o concatAll(Tail(lists))

SearchCurrencies == {"GBP", "USD"}

\* what the call openaiService.enhanceSearchQuery(searchTerm) does for
\* performSearch: it resolves with the fallback, with no search term or with
\* a search term that is not a string; performSearch also provides for a
\* value of the wrong format and for a rejection
EnhanceOutcomes(term) ==
  { rejected,
    resolved(nullBody),
    resolved(termsObject(<<>>)),
    resolved(fallbackEnhancement(term)),
    resolved(termsObject(<<numberTerm>>)) }

performSearch(term, cur) ==
  /\ spPc = "idle"
  /\ spPc' = "enhancing"
  /\ searchTerm' = term
  /\ currency' = cur
  /\ UNCHANGED <<enhancedQuery, allSearchTerms, termIdx, fetches, allResults,
                 uniqueResults, scoredResults, filtered, converted, hist,
                 fetchVars, googleVars, nicheVars, serverVars, enhanceVars>>

\* lines 205-238: the enhancement settles, the phrases are cut to five and
\* the sources are called with the first phrase
EnhanceSettles(outcome) ==
  /\ spPc = "enhancing"
  /\ enhancedQuery' = IF outcome.rejects
                      THEN enhancedQueryOf(fallbackEnhancement(searchTerm))
                      ELSE enhancedQueryOf(outcome.body)
  /\ allSearchTerms' = searchTermsOf(searchTerm, enhancedQuery')
  /\ termIdx' = 1
  /\ fetches' = launchAll
  /\ hist' = [hist EXCEPT !.invoked = @ + Len(sources)]
  /\ spPc' = "fetching"
  /\ lastEnhancedQuery' = termsObject(enhancedQuery')
  /\ UNCHANGED <<searchTerm, currency, allResults, uniqueResults, scoredResults,
                 filtered, converted, fetchVars, googleVars, nicheVars, serverVars, enhCalls, cache>>

\* lines 241-249: source.fn(term) settles and the wrapper of the source
\* returns
SourceSettles(s) ==
  /\ spPc = "fetching"
  /\ fetches[s].state = "pending"
  /\ \E did \in SourceOutcomes(sources[s], allSearchTerms[termIdx]) :
       /\ fetches' = [fetches EXCEPT ![s] =
                        [state |-> "settled", threw |-> did.threw, results |-> did.results,
                         rejected |-> wrapperValue(did).rejected,
                         value |-> wrapperValue(did).value]]
       /\ hist' = [hist EXCEPT !.arrived = @ \o wrapperValue(did).value]
  /\ UNCHANGED <<spPc, searchTerm, currency, enhancedQuery, allSearchTerms, termIdx,
                 allResults, uniqueResults, scoredResults, filtered, converted,
                 fetchVars, googleVars, nicheVars, serverVars, enhanceVars>>

\* line 254, allResults.concat(...resultsPerSource): Promise.all gives the
\* values in the order of the promises, whatever the order they arrived in
collect_asArrived(all, fs, arrived) == all \o arrived
collect(all, fs, arrived) ==
  all \o concatAll([s \in 1..Len(fs) |-> fs[s].value])

\* Promise.all(promises) settles once every promise is fulfilled, or as soon
\* as one of them is rejected
promiseAllSettles_race(fs) == \E s \in 1..Len(fs) : fs[s].state = "settled"
promiseAllSettles_onReject(fs) ==
  \E s \in 1..Len(fs) : fs[s].state = "settled" /\ fs[s].rejected
promiseAllSettles(fs) ==
  \/ \A s \in 1..Len(fs) : fs[s].state = "settled"
  \/ \E s \in 1..Len(fs) : fs[s].state = "settled" /\ fs[s].rejected

\* lines 241, 253-256: Promise.all settles, the values are appended in the
\* order of the sources and the delay is started; a rejected wrapper would
\* reach the catch block of line 279
AllSettled ==
  /\ spPc = "fetching"
  /\ promiseAllSettles(fetches)
  /\ IF \E s \in 1..Len(sources) : fetches[s].rejected
     THEN /\ spPc' = "threw"
          /\ hist' = [hist EXCEPT !.thrown = fetchError]
          /\ UNCHANGED allResults
     ELSE /\ spPc' = "delay"
          /\ allResults' = collect(allResults, fetches, hist.arrived)
          /\ hist' = [hist EXCEPT !.returned = @ \o
               concatAll([s \in 1..Len(sources) |->
                            IF fetches[s].threw THEN <<>> ELSE fetches[s].results])]
  /\ UNCHANGED <<searchTerm, currency, enhancedQuery, allSearchTerms, termIdx,
                 fetches, uniqueResults, scoredResults, filtered, converted,
                 fetchVars, googleVars, nicheVars, serverVars, enhanceVars>>

\* line 255: the delay is over; the next phrase is fetched, or the loop ends
DelayElapsed ==
  /\ spPc = "delay"
  /\ IF termIdx < Len(allSearchTerms)
     THEN /\ termIdx' = termIdx + 1
          /\ fetches' = launchAll
          /\ hist' = [hist EXCEPT !.invoked = @ + Len(sources), !.arrived = <<>>]
          /\ spPc' = "fetching"
     ELSE /\ spPc' = "fetched"
          /\ UNCHANGED <<termIdx, fetches, hist>>
  /\ UNCHANGED <<searchTerm, currency, enhancedQuery, allSearchTerms, allResults,
                 uniqueResults, scoredResults, filtered, converted,
                 fetchVars, googleVars, nicheVars, serverVars, enhanceVars>>

SearchInit ==
  /\ EnhanceIdle
  /\ GoogleIdle
  /\ NicheIdle
  /\ SearchIdle
  /\ FetchIdle
  /\ ServerIdle

SearchNext ==
  \/ \E term \in SearchTerms, cur \in SearchCurrencies : performSearch(term, cur)
  \/ \E outcome \in EnhanceOutcomes(searchTerm) : EnhanceSettles(outcome)
  \/ \E s \in 1..Len(sources) : SourceSettles(s)
  \/ AllSettled
  \/ DelayElapsed
  \/ FinishSearch

SpecSearch == SearchInit /\ [][SearchNext]_vars

(***************************************************************************)
(* SearchService.tryGoogleShoppingSearch          searchService.js 100-115 *)
(* over GoogleShoppingService.search        nicheSearchService.js 219-253  *)
(* One call, for every answer the API can give to three requests in a row. *)
(***************************************************************************)
googleRetries == 3     \* retries = 3
googleDelayMs == 2000  \* delayMs = 2000

\* what the API does with one request: it answers with results, with HTTP
\* 429, or the request fails otherwise
HttpOutcomes == {"ok", "429", "other"}

\* GoogleShoppingService.search(term): [] without a request when the key is
\* not set; the items of the answer; [] from its catch block on any error
googleShoppingSearch_rethrows(term, keySet, http) ==
  IF ~keySet
  THEN [threw |-> FALSE, status |-> "", value |-> <<>>, requests |-> 0]
  ELSE IF http = "ok"
  THEN [threw |-> FALSE, status |-> "", value |-> googleItems(term), requests |-> 1]
  ELSE [threw |-> TRUE, status |-> http, value |-> <<>>, requests |-> 1]
googleShoppingSearch(term, keySet, http) ==
  IF ~keySet
  THEN [threw |-> FALSE, status |-> "", value |-> <<>>, requests |-> 0]
  ELSE IF http = "ok"
  THEN [threw |-> FALSE, status |-> "", value |-> googleItems(term), requests |-> 1]
  ELSE [threw |-> FALSE, status |-> "", value |-> <<>>, requests |-> 1]

\* the loop of tryGoogleShoppingSearch from attempt `a` on, with delayMs `d`
RECURSIVE tryFrom(_, _, _, _, _, _)
tryFrom(term, keySet, https, a, d, run) ==
  IF a > googleRetries
  THEN [run EXCEPT !.outcome = "returned", !.value = <<>>]
  ELSE LET did == googleShoppingSearch(term, keySet, https[a])
           ran == [run EXCEPT !.attempts = @ + 1, !.requests = @ + did.requests]
       IN IF ~did.threw
          THEN [ran EXCEPT !.outcome = "returned", !.value = did.value]
          ELSE IF did.status = "429" /\ a < googleRetries
          THEN tryFrom(term, keySet, https, a + 1, d * 2,
                       [ran EXCEPT !.waits = Append(@, d)])
          ELSE [ran EXCEPT !.outcome = "threw"]

\* tryGoogleShoppingSearch(term) is called
tryGoogleShoppingSearch ==
  /\ gsPc = "idle"
  /\ gsPc' = "called"
  /\ UNCHANGED <<gsTerm, gsKeySet, gsHttp, gsRun,
                 fetchVars, searchVars, serverVars, enhanceVars, nicheVars>>

\* the call settles: it has returned a list or thrown
TrySettles ==
  /\ gsPc = "called"
  /\ gsPc' = "done"
  /\ gsRun' = tryFrom(gsTerm, gsKeySet, gsHttp, 1, googleDelayMs, gsRun)
  /\ UNCHANGED <<gsTerm, gsKeySet, gsHttp,
                 fetchVars, searchVars, serverVars, enhanceVars, nicheVars>>

GoogleInit ==
  /\ EnhanceIdle
  /\ FetchIdle
  /\ SearchIdle
  /\ ServerIdle
  /\ NicheIdle
  /\ gsPc = "idle"
  /\ gsTerm \in {cam, box}
  /\ gsKeySet \in BOOLEAN
  /\ gsHttp \in [1..googleRetries -> HttpOutcomes]
  /\ gsRun = [attempts |-> 0, requests |-> 0, waits |-> <<>>, outcome |-> "", value |-> <<>>]

GoogleNext ==
  \/ tryGoogleShoppingSearch
  \/ TrySettles

SpecGoogle == GoogleInit /\ [][GoogleNext]_vars

(***************************************************************************)
(* searchNicheMarketplaces                    nicheSearchService.js 7-79   *)
(* A URL is [scheme, host, rest]: its host and what follows the host are   *)
(* sequences of pieces of text, and the text of the URL is their           *)
(* concatenation.  The links of the Google page are taken after            *)
(* decodeURIComponent.                                                     *)
(***************************************************************************)
NICHE_MARKETPLACE_DOMAINS == {"cashconverters.co.uk", "example-niche-site.com"}

url(host, rest) == [scheme |-> "https://", host |-> host, rest |-> rest]

urlText(u) == <<u.scheme>> \o u.host \o u.rest

\* the links a Google result page can hold: a page of a niche marketplace,
\* of a sub-domain of one, of another site, and of another site whose query
\* string names a niche marketplace
PageLinks ==
  { url(<<"www.", "cashconverters.co.uk">>, <<"/item/1">>),
    url(<<"example-niche-site.com">>, <<"/p/2">>),
    url(<<"www.", "ebay.co.uk">>, <<"/itm/3">>),
    url(<<"evil.example">>, <<"/?ref=", "cashconverters.co.uk">>) }

\* NICHE_MARKETPLACE_DOMAINS.some(domain => url.includes(domain))
isNicheLink(u) ==
  \E domain \in NICHE_MARKETPLACE_DOMAINS : includes(urlText(u), <<domain>>)

\* [...new Set(urls)]: the first occurrence of every URL, in order
RECURSIVE uniqueFrom(_, _)
uniqueFrom(urls, seen) ==
  IF urls = <<>> THEN <<>>
  ELSE IF Head(urls) \in seen THEN uniqueFrom(Tail(urls), seen)
  ELSE <<Head(urls)>> \o uniqueFrom(Tail(urls), seen \cup {Head(urls)})

\* extractGoogleResultLinks(html), over the decoded links of the page
extractGoogleResultLinks(links) == uniqueFrom(SelectSeq(links, isNicheLink), {})

\* what scrapeListingPage(url) returns
scrapedListing(u) ==
  [url |-> u, title |-> "No title found", price |-> "Price not found", source |-> u]

\* searchNicheMarketplaces(searchTerm) up to await fetchPage(googleSearchUrl)
searchNicheMarketplaces ==
  /\ nsPc = "idle"
  /\ nsPc' = "google"
  /\ UNCHANGED <<googleLinks, listingUrls, nsIdx, scraped, nicheResults,
                 fetchVars, searchVars, serverVars, enhanceVars, googleVars>>

\* lines 63-71: the Google page arrives with `links`; the links are
\* extracted and scrapeListingPage is called with the first of them
GooglePageFetched(links) ==
  /\ nsPc = "google"
  /\ googleLinks' = links
  /\ listingUrls' = extractGoogleResultLinks(links)
  /\ IF listingUrls' = <<>>
     THEN /\ nsPc' = "returned"
          /\ UNCHANGED <<nsIdx, scraped>>
     ELSE /\ nsPc' = "scraping"
          /\ nsIdx' = 1
          /\ scraped' = <<listingUrls'[1]>>
  /\ UNCHANGED <<nicheResults, fetchVars, searchVars, serverVars, enhanceVars, googleVars>>

\* line 63: fetchPage of the Google page throws, and so does the call
GooglePageFails ==
  /\ nsPc = "google"
  /\ nsPc' = "threw"
  /\ UNCHANGED <<googleLinks, listingUrls, nsIdx, scraped, nicheResults,
                 fetchVars, searchVars, serverVars, enhanceVars, googleVars>>

\* lines 69-78: scrapeListingPage returns a listing, which is pushed, or
\* throws, which is logged; the next URL is scraped, or the results returned
ScrapeSettles(ok) ==
  /\ nsPc = "scraping"
  /\ nicheResults' = IF ok THEN Append(nicheResults, scrapedListing(listingUrls[nsIdx]))
                     ELSE nicheResults
  /\ IF nsIdx < Len(listingUrls)
     THEN /\ nsIdx' = nsIdx + 1
          /\ scraped' = Append(scraped, listingUrls[nsIdx + 1])
          /\ UNCHANGED nsPc
     ELSE /\ nsPc' = "returned"
          /\ UNCHANGED <<nsIdx, scraped>>
  /\ UNCHANGED <<googleLinks, listingUrls,
                 fetchVars, searchVars, serverVars, enhanceVars, googleVars>>

NicheInit ==
  /\ EnhanceIdle
  /\ GoogleIdle
  /\ NicheIdle
  /\ FetchIdle
  /\ SearchIdle
  /\ ServerIdle

NicheNext ==
  \/ searchNicheMarketplaces
  \/ \E links \in SeqsUpTo(PageLinks, MaxLinks) : GooglePageFetched(links)
  \/ GooglePageFails
  \/ \E ok \in BOOLEAN : ScrapeSettles(ok)

SpecNiche == NicheInit /\ [][NicheNext]_vars

(***************************************************************************)
(* The quota gate, rateLimitService.checkDailyLimit.  Its file is not part *)
(* of the sources; it is modelled from the specification (section 4.3):    *)
(* one atomic check-and-increment per call.                                *)
(***************************************************************************)
dailyLimit == 1

\* the QuotaRecord key, derived again at every call from the current date
quotaKey_noDate(identity, day) == <<identity, 0>>
quotaKey(identity, day) == <<identity, day>>

countOf(key) == IF key \in DOMAIN quota THEN quota[key] ELSE 0

\* count >= dailyLimit
limitReached_offByOne(count) == count > dailyLimit
limitReached(count) == count >= dailyLimit

\* the answer of checkDailyLimit(identity, isPrivileged) on day `day`
checkDailyLimit(identity, isPrivileged, day) ==
  LET count == countOf(quotaKey(identity, day))
  IN IF isPrivileged
     THEN [allowed |-> TRUE, remaining |-> -1, resetTime |-> day + 1, count |-> count]
     ELSE IF limitReached(count)
          THEN [allowed |-> FALSE, remaining |-> 0, resetTime |-> day + 1, count |-> count]
          ELSE [allowed |-> TRUE, remaining |-> dailyLimit - (count + 1),
                resetTime |-> day + 1, count |-> count + 1]

(***************************************************************************)
(* The POST /search handler                              server.js 45-76   *)
(* A JSON value of the request body is [t, v]: its type and its text.      *)
(***************************************************************************)
undefinedValue == [t |-> "undefined", v |-> <<>>]
str(text) == [t |-> "string", v |-> text]
nonString == [t |-> "number", v |-> <<"5">>]

\* !x
falsy_undefinedOnly(x) == x.t = "undefined"
falsy(x) == x.t = "undefined" \/ (x.t = "string" /\ x.v = <<>>)

\* the request bodies received
Bodies ==
  { [search_term |-> str(cam), location |-> undefinedValue],
    [search_term |-> str(cam), location |-> nonString],
    [search_term |-> undefinedValue, location |-> undefinedValue],
    [search_term |-> str(<<>>), location |-> undefinedValue],
    [search_term |-> nonString, location |-> undefinedValue] }

\* the callers: req.sessionID and req.ip ("": none); one with a session and
\* one without
Callers ==
  { [sessionID |-> "s1", ip |-> "ip1"],
    [sessionID |-> "", ip |-> "ip1"] }

\* req.sessionID || req.ip || 'anonymous'
userIdentifierOf(caller) ==
  IF caller.sessionID # "" THEN caller.sessionID
  ELSE IF caller.ip # "" THEN caller.ip
  ELSE "anonymous"

\* const isSubscribed = false
isSubscribed == FALSE

\* location = 'UK' when the body has none
locationOf(body) ==
  IF body.location.t = "undefined"
  THEN str(<<"U", "K">>) ELSE body.location

noCaller == [sessionID |-> "", ip |-> ""]
noRateLimit == [allowed |-> FALSE, remaining |-> 0, resetTime |-> 0, count |-> 0]
noResponse == [status |-> 0, error |-> "", resetTime |-> 0, listings |-> <<>>, message |-> ""]
notChecked == -1

\* what performSearch does for the handler: it returns its list, or it throws
\* an Error with a message
searchReturned(listings) == [threw |-> FALSE, listings |-> listings, message |-> ""]
searchThrew(message) == [threw |-> TRUE, listings |-> <<>>, message |-> message]

SearchOutcomes == {searchReturned(vintedItems(cam)), searchThrew(scoringError)}

\* a request arrives: the handler up to await checkDailyLimit.  The handler
\* of a request with an invalid term never reads the caller.
HandleRequest(caller, body) ==
  /\ Len(reqs) < MaxRequests
  /\ LET search_term == body.search_term
         invalid == falsy(search_term) \/ search_term.t # "string"
     IN reqs' = Append(reqs,
          [caller |-> IF invalid THEN noCaller ELSE caller,
           body |-> body,
           userIdentifier |-> IF invalid THEN "" ELSE userIdentifierOf(caller),
           pc |-> IF invalid THEN "done" ELSE "gate",
           gateCalls |-> IF invalid THEN 0 ELSE 1,
           searchCalls |-> 0,
           rateLimit |-> noRateLimit,
           checkDay |-> notChecked,
           response |-> IF invalid
                        THEN [noResponse EXCEPT !.status = 400,
                                                !.error = "Invalid search term"]
                        ELSE noResponse])
  /\ UNCHANGED <<quota, today, fetchVars, googleVars, nicheVars, searchVars, enhanceVars>>

\* the handler after await checkDailyLimit, given the gate's answer: the 429
\* answer, or the arguments of performSearch are evaluated (location.trim()
\* throws on a non-string, which the catch block answers) and performSearch
\* is called
afterGate(req, answer, day) ==
  LET checked == [req EXCEPT !.rateLimit = answer, !.checkDay = day]
  IN IF ~answer.allowed
     THEN [checked EXCEPT !.pc = "done",
                          !.response = [noResponse EXCEPT
                                          !.status = 429,
                                          !.error = "Daily limit exceeded",
                                          !.resetTime = answer.resetTime]]
     ELSE IF locationOf(req.body).t # "string"
     THEN [checked EXCEPT !.pc = "done",
                          !.response = [noResponse EXCEPT
                                          !.status = 500,
                                          !.error = "Search failed",
                                          !.message = "location.trim is not a function"]]
     ELSE [checked EXCEPT !.pc = "search", !.searchCalls = @ + 1]

\* the quota gate serves the call of request i, in one atomic step, and the
\* handler goes on with its answer; the request keeps the day of its check
CheckDailyLimit(i) ==
  /\ reqs[i].pc = "gate"
  /\ LET identity == reqs[i].userIdentifier
         answer == checkDailyLimit(identity, isSubscribed, today)
         key == quotaKey(identity, today)
     IN /\ quota' = [k \in DOMAIN quota \cup {key} |->
                       IF k = key THEN answer.count ELSE quota[k]]
        /\ reqs' = [reqs EXCEPT ![i] = afterGate(@, answer, today)]
  /\ UNCHANGED <<today, fetchVars, googleVars, nicheVars, searchVars, enhanceVars>>

\* performSearch settles: the 200 answer, or the catch block's 500 answer
SearchSettles(i, outcome) ==
  /\ reqs[i].pc = "search"
  /\ reqs' = [reqs EXCEPT ![i] =
       IF outcome.threw
       THEN [@ EXCEPT !.pc = "done",
                      !.response = [noResponse EXCEPT
                                      !.status = 500,
                                      !.error = "Search failed",
                                      !.message = outcome.message]]
       ELSE [@ EXCEPT !.pc = "done",
                      !.response = [noResponse EXCEPT
                                      !.status = 200,
                                      !.listings = outcome.listings,
                                      !.resetTime = reqs[i].rateLimit.resetTime]]]
  /\ UNCHANGED <<quota, today, fetchVars, googleVars, nicheVars, searchVars, enhanceVars>>

\* UTC midnight passes
Midnight ==
  /\ today < MaxDay
  /\ today' = today + 1
  /\ UNCHANGED <<reqs, quota, fetchVars, googleVars, nicheVars, searchVars, enhanceVars>>

ServerInit ==
  /\ EnhanceIdle
  /\ GoogleIdle
  /\ NicheIdle
  /\ ServerIdle
  /\ FetchIdle
  /\ SearchIdle

ServerNext ==
  \/ \E caller \in Callers, body \in Bodies : HandleRequest(caller, body)
  \/ \E i \in 1..Len(reqs) : CheckDailyLimit(i)
  \/ \E i \in 1..Len(reqs), outcome \in SearchOutcomes : SearchSettles(i, outcome)
  \/ Midnight

Spec == ServerInit /\ [][ServerNext]_vars

(***************************************************************************)
(* The handler over every way performSearch can end, for a few requests.   *)
(***************************************************************************)
nullTermError == "Search failed: Cannot read properties of null (reading 'toLowerCase')"

HandlerOutcomes ==
  { searchReturned(<<>>), searchReturned(vintedItems(cam)),
    searchThrew(scoringError), searchThrew(nullTermError) }

HandlerNext ==
  \/ \E caller \in Callers, body \in Bodies :
       Len(reqs) < MaxHandlerRequests /\ HandleRequest(caller, body)
  \/ \E i \in 1..Len(reqs) : CheckDailyLimit(i)
  \/ \E i \in 1..Len(reqs), outcome \in HandlerOutcomes : SearchSettles(i, outcome)
  \/ Midnight

SpecHandler == ServerInit /\ [][HandlerNext]_vars

(***************************************************************************)
(* One request from its arrival to its answer: the handler calls           *)
(* performSearch, which runs as in SpecSearch, and answers with what it    *)
(* returned or threw.                                                      *)
(***************************************************************************)
\* const { search_term, location = 'UK', currency = 'GBP' } = req.body
currencyOf(body) == "GBP"

\* what await searchService.performSearch(...) gives the handler
outcomeOfSearch_emptyIsFault ==
  IF spPc = "threw" THEN searchThrew(hist.thrown)
  ELSE IF converted = <<>> THEN searchThrew("Search failed: no results")
  ELSE searchReturned(converted)
outcomeOfSearch ==
  IF spPc = "threw" THEN searchThrew(hist.thrown) ELSE searchReturned(converted)

RequestNext ==
  \/ \E caller \in Callers, body \in Bodies :
       Len(reqs) = 0 /\ HandleRequest(caller, body)
  \/ \E i \in 1..Len(reqs) : CheckDailyLimit(i)
  \/ \E i \in 1..Len(reqs) :
       /\ reqs[i].pc = "search"
       /\ performSearch(trim(reqs[i].body.search_term.v), currencyOf(reqs[i].body))
  \/ \E outcome \in EnhanceOutcomes(searchTerm) : EnhanceSettles(outcome)
  \/ \E s \in 1..Len(sources) : SourceSettles(s)
  \/ AllSettled
  \/ DelayElapsed
  \/ FinishSearch
  \/ \E i \in 1..Len(reqs) :
       /\ spPc \in {"returned", "threw"}
       /\ SearchSettles(i, outcomeOfSearch)

SpecRequest == ServerInit /\ [][RequestNext]_vars

(***************************************************************************)
(* Claims about query enhancement, checked under SpecEnhance.              *)
(***************************************************************************)
\* C11: the phrases performSearch fetches are the original term followed by
\* the enhanced search terms in their order, cut to at most 5 phrases; the
\* original term is always there and always first.
C11_PhrasesAreTermThenEnhancedCutToFive ==
  \A c \in 1..Len(enhCalls) :
    enhCalls[c].pc = "listed" =>
      LET phrases == enhCalls[c].allSearchTerms
          terms == enhCalls[c].result.search_terms
      IN /\ Len(phrases) >= 1
         /\ Len(phrases) <= 5
         /\ phrases[1] = enhCalls[c].query
         /\ Len(phrases) = (IF Len(terms) + 1 < 5 THEN Len(terms) + 1 ELSE 5)
         /\ \A k \in 2..Len(phrases) : phrases[k] = terms[k - 1]

\* C11's case: one call was answered with no search term and gave the
\* original term alone, another was answered with six search terms and gave
\* five phrases.
C11_Witness ==
  \E c, d \in 1..Len(enhCalls) :
    /\ enhCalls[c].pc = "listed"
    /\ enhCalls[c].result.search_terms = <<>>
    /\ enhCalls[c].allSearchTerms = <<enhCalls[c].query>>
    /\ enhCalls[d].pc = "listed"
    /\ Len(enhCalls[d].result.search_terms) = 6
    /\ Len(enhCalls[d].allSearchTerms) = 5

(***************************************************************************)
(* Claims about the fetching loop of performSearch, checked under          *)
(* SpecSearch.                                                             *)
(***************************************************************************)
\* C1: a source fetch that throws adds no listing, keeps no other fetch of
\* any phrase or source from being invoked and does not make performSearch
\* throw; the working set is exactly the listings returned by the fetches
\* that succeeded, phrase after phrase in the order of the sources.
C1_FailedFetchIsIsolated ==
  /\ spPc = "threw" => (hist.thrown = scoringError /\ scoreResultsThrows(enhancedQuery))
  /\ spPc \in {"fetching", "delay"} =>
       /\ Len(fetches) = Len(sources)
       /\ hist.invoked = Len(sources) * termIdx
       /\ \A s \in 1..Len(sources) :
            (fetches[s].state = "settled" /\ fetches[s].threw) =>
              (~fetches[s].rejected /\ fetches[s].value = <<>>)
  /\ spPc \in {"fetched", "returned"} =>
       hist.invoked = Len(sources) * Len(allSearchTerms)
  /\ spPc \in {"delay", "fetched", "returned"} => allResults = hist.returned

\* C1's case: performSearch has returned listings after four phrases, in the
\* last of which a scraper threw while the source after it returned items
\* that are in the working set.
C1_Witness ==
  /\ spPc = "returned"
  /\ Len(allSearchTerms) = 4
  /\ hist.invoked = 4 * Len(sources)
  /\ fetches[3].threw
  /\ fetches[5].threw
  /\ ~fetches[6].threw
  /\ fetches[6].results # <<>>
  /\ \A i \in 1..Len(fetches[6].results) :
       \E k \in 1..Len(allResults) : allResults[k] = fetches[6].results[i]
  /\ converted # <<>>

\* an object whose search_terms is an array of strings
hasArrayOfStrings(value) ==
  /\ value.kind = "object"
  /\ value.isArray
  /\ \A i \in 1..Len(value.search_terms) : isString(value.search_terms[i])

\* C13: whenever the call to the generative service fails, or its body does
\* not parse into an object whose search_terms is an array of strings,
\* enhanceSearchQuery returns the fallback [term, term + " rare",
\* "used " + term].
C13_FallbackUnlessArrayOfStrings ==
  \A c \in 1..Len(enhCalls) :
    (enhCalls[c].pc # "awaiting" /\ enhCalls[c].outbound = 1) =>
      ((enhCalls[c].service.rejects \/ ~hasArrayOfStrings(enhCalls[c].service.body)) =>
         enhCalls[c].result = termsObject(<<enhCalls[c].query,
                                            enhCalls[c].query \o <<" ", "r", "a", "r", "e">>,
                                            <<"u", "s", "e", "d", " ">> \o enhCalls[c].query>>))

\* C12: query enhancement never fails into performSearch: whatever the
\* enhancer resolved with, performSearch holds a list of search terms and
\* does not throw because of it.
C12_EnhancementNeverMakesSearchThrow ==
  /\ spPc \notin {"idle", "enhancing"} => Len(allSearchTerms) = Len(enhancedQuery) + 1
  /\ spPc = "threw" => ~scoreResultsThrows(enhancedQuery)

(***************************************************************************)
(* Claims about the quota gate and the /search handler, checked under      *)
(* Spec.  A request keeps the gate's answer and the day of its check.      *)
(***************************************************************************)
wasChecked(req) == req.checkDay # notChecked

\* the requests of `identity` whose check the gate served on `day`
checksOf(identity, day) ==
  { i \in 1..Len(reqs) : /\ reqs[i].checkDay = day
                         /\ reqs[i].userIdentifier = identity }

Identities == { userIdentifierOf(caller) : caller \in Callers }

\* C2: with dailyLimit = 1, of the checks of one non-privileged identity on
\* one UTC day, however they interleave, exactly one is answered allowed and
\* all the others are answered not allowed.
C2_ExactlyOneCheckAllowed ==
  \A identity \in Identities, day \in 0..MaxDay :
    LET checks == checksOf(identity, day)
        granted == { i \in checks : reqs[i].rateLimit.allowed }
    IN checks # {} => /\ Cardinality(granted) = 1
                      /\ \A i \in checks \ granted : ~reqs[i].rateLimit.allowed

\* C2's case: MaxRequests checks of one identity were pending together on one
\* day (the request that arrived last was served first and allowed), and
\* every other one has been answered not allowed.
C2_Witness ==
  /\ Len(reqs) = MaxRequests
  /\ \A i \in 1..MaxRequests :
       /\ reqs[i].userIdentifier = reqs[1].userIdentifier
       /\ wasChecked(reqs[i])
       /\ reqs[i].checkDay = reqs[1].checkDay
       /\ reqs[i].rateLimit.allowed <=> (i = MaxRequests)

\* C3: with dailyLimit = 1, the first check of an identity on a UTC day is
\* answered allowed with remaining 0, whatever the records of earlier days;
\* every later check on that day is answered not allowed with remaining 0 and
\* leaves every count as it was.
C3_FirstCheckOfDayAllowedLaterDenied ==
  [][\A i \in 1..Len(reqs) :
       (reqs[i].pc = "gate" /\ reqs'[i].pc # "gate") =>
         LET answer == reqs'[i].rateLimit
         IN IF checksOf(reqs[i].userIdentifier, today) = {}
            THEN /\ answer.allowed
                 /\ answer.remaining = 0
            ELSE /\ ~answer.allowed
                 /\ answer.remaining = 0
                 /\ quota' = quota]_vars

\* C3's case: one identity was allowed on a day, denied later on the same
\* day, and allowed again on the following day while the record of the day
\* before was still kept.
C3_Witness ==
  \E i, j, k \in 1..Len(reqs) :
    /\ reqs[i].userIdentifier = reqs[j].userIdentifier
    /\ reqs[j].userIdentifier = reqs[k].userIdentifier
    /\ i < j /\ j < k
    /\ reqs[i].checkDay = 0 /\ reqs[i].rateLimit.allowed
    /\ reqs[j].checkDay = 0 /\ ~reqs[j].rateLimit.allowed
    /\ reqs[k].checkDay = 1 /\ reqs[k].rateLimit.allowed
    /\ reqs[k].rateLimit.remaining = 0
    /\ <<reqs[k].userIdentifier, 0>> \in DOMAIN quota

\* C4: for every request with a valid term the handler calls the gate once,
\* and before performSearch; performSearch is invoked if and only if the gate
\* answered allowed; a rejection is answered 429 with the gate's reset time;
\* and an allowed request has consumed one unit of quota however the search
\* ends.
C4_SearchInvokedIffAllowed ==
  \A i \in 1..Len(reqs) :
    LET req == reqs[i]
    IN /\ req.searchCalls > 0 => wasChecked(req)
       /\ (req.pc = "done" /\ req.response.status # 400) =>
            /\ req.gateCalls = 1
            /\ wasChecked(req)
            /\ (req.searchCalls = 1) <=> req.rateLimit.allowed
            /\ ~req.rateLimit.allowed =>
                 /\ req.response.status = 429
                 /\ req.response.resetTime = req.rateLimit.resetTime
            /\ req.rateLimit.allowed =>
                 countOf(quotaKey(req.userIdentifier, req.checkDay)) = 1

(***************************************************************************)
(* Claims about the answers of the handler, checked under SpecHandler.     *)
(***************************************************************************)
\* request i was answered after its performSearch call threw
searchFailed(i) ==
  /\ reqs[i].pc = "done"
  /\ reqs[i].searchCalls = 1
  /\ reqs[i].response.status = 500

\* C15: when performSearch fails, the answer to the caller is a generic
\* failure that does not depend on the text of the internal error: two
\* requests that differ only in that text get the same answer.
C15_FailureAnswerIndependentOfErrorText ==
  \A i, j \in 1..Len(reqs) :
    (/\ searchFailed(i)
     /\ searchFailed(j)
     /\ reqs[i].caller = reqs[j].caller
     /\ reqs[i].body = reqs[j].body) =>
      reqs[i].response = reqs[j].response

(***************************************************************************)
(* Claims about one request from end to end, checked under SpecRequest.    *)
(***************************************************************************)
\* the fetching loop is over and no source fetch of any phrase returned a
\* listing, while the enhancer had only its fallback to give
nothingFetched ==
  /\ spPc \in {"fetched", "returned", "threw"}
  /\ enhancedQuery = getFallbackEnhancement(searchTerm)
  /\ hist.returned = <<>>

\* C14: when every source fetch of every phrase returns nothing or fails and
\* the generative service is unreachable, performSearch returns an empty
\* list without throwing and the handler answers 200 with an empty listings
\* array, not 500.
C14_NothingFoundIsAnEmptySuccess ==
  nothingFetched =>
    /\ spPc # "threw"
    /\ spPc = "returned" => converted = <<>>
    /\ \A i \in 1..Len(reqs) :
         (reqs[i].pc = "done" /\ reqs[i].searchCalls = 1) =>
           /\ reqs[i].response.status = 200
           /\ reqs[i].response.listings = <<>>
           /\ reqs[i].response.error = ""

\* C14's case: four phrases were fetched, in the last of them a scraper threw
\* and the other sources returned nothing, and the request has been answered.
C14_Witness ==
  /\ nothingFetched
  /\ Len(allSearchTerms) = 4
  /\ hist.invoked = 4 * Len(sources)
  /\ fetches[3].threw
  /\ ~fetches[6].threw
  /\ Len(reqs) = 1
  /\ reqs[1].pc = "done"
  /\ reqs[1].response.status = 200
  /\ countOf(quotaKey(reqs[1].userIdentifier, reqs[1].checkDay)) = 1

(***************************************************************************)
(* Claims about fetchPage, checked under SpecFetch.                        *)
(***************************************************************************)

\* C5 as stated: one fetchPage call issues at most maxRetries HTTP requests
\* (5 by default).
C5_AtMostMaxRetriesRequests == fpRequests <= maxRetries

\* C5 (amended): one fetchPage call issues at most maxRetries + 1 HTTP requests
\* (the first attempt and maxRetries retries, 6 by default), whatever the
\* failures are; once maxRetries + 1 attempts have failed the error is
\* propagated, and the number of attempts made is the number of requests.
C5_AtMostMaxRetriesPlusOneRequests ==
  /\ fpRequests <= maxRetries + 1
  /\ attempt = fpRequests
  /\ Len(fpFailures) <= fpRequests
  /\ (Len(fpFailures) = maxRetries + 1 => fpPc = "threw")

\* C5 witness: the default call has failed 6 times, with 429 and with other
\* errors, and has thrown.
C5_Witness ==
  /\ fpPc = "threw"
  /\ maxRetries = DefaultMaxRetries
  /\ fpRequests = DefaultMaxRetries + 1
  /\ \E i, k \in 1..Len(fpFailures) : fpFailures[i] = "429" /\ fpFailures[k] = "other"

\* C6 as stated: whenever fetchPage throws, all of its allowed attempts have
\* been made and each of them failed.
C6_ThrowsOnlyAfterExhaustion ==
  fpPc = "threw" =>
    /\ fpRequests = maxRetries + 1
    /\ Len(fpFailures) = fpRequests

\* C6 (amended): when the proxy API key is configured, fetchPage throws only
\* after all of its maxRetries + 1 attempts have been made and each of them
\* failed; when the key is not configured it throws at once, without any
\* attempt.
C6_ThrowsOnlyAfterExhaustionOrNoKey ==
  fpPc = "threw" =>
    IF apiKeySet
    THEN fpRequests = maxRetries + 1 /\ Len(fpFailures) = fpRequests
    ELSE fpRequests = 0 /\ fpFailures = <<>>

\* C6 witness: a configured call has thrown after retrying at least once.
C6_Witness ==
  /\ fpPc = "threw"
  /\ apiKeySet
  /\ maxRetries >= 1
  /\ Len(fpFailures) = maxRetries + 1

(***************************************************************************)
(* Claims about the end of performSearch, checked under SpecPipeline.      *)
(***************************************************************************)
normalizedTitle(result) == collapseWhitespace(trim(toLowerCase(result.title)))

\* C7: the list performSearch returns never holds two listings with the same
\* normalized title and the same price text as returned to the caller.
C7_ReturnedListHasNoDuplicates ==
  spPc = "returned" =>
    \A i, j \in 1..Len(converted) :
      i < j => ~(/\ normalizedTitle(converted[i]) = normalizedTitle(converted[j])
                 /\ converted[i].price = converted[j].price)

\* the indices of the listings deduplicateResults must keep: the valid ones
\* that no earlier valid listing shares its key with
FirstOfKey(results) ==
  { i \in 1..Len(results) :
      /\ hasRequiredFields(results[i])
      /\ \A j \in 1..(i - 1) :
           hasRequiredFields(results[j]) => dedupeKey(results[j]) # dedupeKey(results[i]) }

\* the elements of results at the indices of keep, in ascending order
RECURSIVE AtIndices(_, _, _)
AtIndices(results, keep, from) ==
  IF from > Len(results) THEN <<>>
  ELSE (IF from \in keep THEN <<results[from]>> ELSE <<>>)
         \o AtIndices(results, keep, from + 1)

\* C8: deduplicateResults keeps, for each deduplication key, exactly the first
\* listing with that key in input order and drops every later one, whatever
\* its image or source; the kept listings stay in their input order.
C8_DedupeKeepsFirstOfEachKey ==
  (spPc = "returned" /\ allResults # <<>>) =>
    uniqueResults = AtIndices(allResults, FirstOfKey(allResults), 1)

\* C8 witness: the working set holds two valid listings with one key that
\* differ in image and source; the first was kept and the second dropped.
C8_Witness ==
  /\ spPc = "returned"
  /\ \E i, j \in 1..Len(allResults) :
       /\ i < j
       /\ hasRequiredFields(allResults[i]) /\ hasRequiredFields(allResults[j])
       /\ dedupeKey(allResults[i]) = dedupeKey(allResults[j])
       /\ allResults[i].image # allResults[j].image
       /\ allResults[i].source # allResults[j].source
       /\ \E k \in 1..Len(uniqueResults) : uniqueResults[k] = allResults[i]
       /\ \A k \in 1..Len(uniqueResults) : uniqueResults[k] # allResults[j]
  /\ Len(uniqueResults) >= 2

\* C9: every listing that survives deduplicateResults, and every listing
\* performSearch returns, has a non-empty title, price and link.
C9_SurvivorsHaveRequiredFields ==
  /\ \A i \in 1..Len(uniqueResults) :
       /\ uniqueResults[i].title # <<>>
       /\ uniqueResults[i].price # <<>>
       /\ uniqueResults[i].link # <<>>
  /\ \A i \in 1..Len(converted) :
       /\ converted[i].title # <<>>
       /\ converted[i].price # <<>>
       /\ converted[i].link # <<>>

\* C9 witness: listings without a title, without a price and without a link
\* were fetched, and a listing was returned all the same.
C9_Witness ==
  /\ spPc = "returned"
  /\ \E i \in 1..Len(allResults) : allResults[i].link = <<>>
  /\ \E i \in 1..Len(allResults) : allResults[i].title = <<>> \/ allResults[i].price = <<>>
  /\ converted # <<>>

\* C10: the list performSearch returns is in non-increasing score order, holds
\* only listings scoring at least 0.30, and has at most 30 entries.
C10_ReturnedListSortedThresholdedCapped ==
  /\ Len(converted) <= 30
  /\ \A i \in 1..Len(converted) : converted[i].score >= 30
  /\ \A i, j \in 1..Len(converted) : i < j => converted[i].score >= converted[j].score

\* C10 witness: more than 30 listings reached the threshold, with different
\* scores, and 30 were returned.
C10_Witness ==
  /\ spPc = "returned"
  /\ Len(SelectSeq(scoredResults, LAMBDA r : r.score >= 30)) > 30
  /\ Len(converted) = 30
  /\ converted[1].score > converted[30].score
  /\ \E i, j \in 1..Len(scoredResults) :
       i < j /\ scoredResults[i].score < scoredResults[j].score

\* C16: scoring is bounded and deterministic: every listing gets a score s
\* with 0 <= s <= 1 (0..100 in hundredths), and scoring the same listing with
\* the same term and enhanced phrases again, alone or among others, gives
\* the same score.
C16_ScoreBoundedAndDeterministic ==
  (spPc = "returned" /\ allResults # <<>>) =>
    /\ Len(scoredResults) = Len(uniqueResults)
    /\ \A i \in 1..Len(scoredResults) :
         /\ scoredResults[i].score >= 0
         /\ scoredResults[i].score <= 100
         /\ scoreResults(<<uniqueResults[i]>>, searchTerm, enhancedQuery)[1].score
              = scoredResults[i].score
    /\ scoreResults(uniqueResults, searchTerm, enhancedQuery) = scoredResults

\* C16's case: in one working set a listing whose sum of bonuses and
\* penalties is below 0 was scored 0 and one whose sum is above 1 was
\* scored 1.
C16_Witness ==
  /\ spPc = "returned"
  /\ \E i \in 1..Len(uniqueResults) :
       /\ rawScore(uniqueResults[i], searchTerm, enhancedQuery) < 0
       /\ scoredResults[i].score = 0
  /\ \E i \in 1..Len(uniqueResults) :
       /\ rawScore(uniqueResults[i], searchTerm, enhancedQuery) > 100
       /\ scoredResults[i].score = 100

\* no token of the original term and no enhanced phrase occurs in the title
noTermMatch(result) ==
  LET title == toLowerCase(result.title)
      tokens == splitWhitespace(toLowerCase(searchTerm))
  IN /\ \A k \in 1..Len(tokens) : ~includes(title, tokens[k])
     /\ \A k \in 1..Len(enhancedQuery) : ~includes(title, toLowerCase(enhancedQuery[k]))

\* C17: a listing whose title is shorter than 20 characters and has no term
\* match in it scores below 0.30 and is not in the list performSearch
\* returns.
C17_ShortUnmatchedTitleIsFilteredOut ==
  (spPc = "returned" /\ allResults # <<>>) =>
    \A i \in 1..Len(uniqueResults) :
      (Len(uniqueResults[i].title) < 20 /\ noTermMatch(uniqueResults[i])) =>
        /\ scoredResults[i].score < 30
        /\ \A k \in 1..Len(converted) :
             ~(/\ converted[k].title = uniqueResults[i].title
               /\ converted[k].link = uniqueResults[i].link)

\* C17's case: a listing titled "box" was fetched with listings that match
\* the term "cam"; the others were returned, "box" was not.
C17_Witness ==
  /\ spPc = "returned"
  /\ \E i \in 1..Len(uniqueResults) :
       /\ uniqueResults[i].title = box
       /\ noTermMatch(uniqueResults[i])
       /\ scoredResults[i].score = 0
  /\ converted # <<>>
  /\ \A k \in 1..Len(converted) : converted[k].title # box

\* the number written in a price: its first run of digits and commas, with
\* the decimal point and the digits that follow it when there are any
numberIn(price) ==
  LET numeric == Digits \cup {","}
      from == CHOOSE k \in 1..Len(price) :
                /\ price[k] \in numeric
                /\ \A m \in 1..(k - 1) : price[m] \notin numeric
      to == CHOOSE k \in from..Len(price) :
              /\ \A m \in from..k : price[m] \in numeric
              /\ (k = Len(price) \/ price[k + 1] \notin numeric)
      decimals == to + 2 <= Len(price) /\ price[to + 1] = "." /\ price[to + 2] \in Digits
      last == IF ~decimals THEN to
              ELSE CHOOSE k \in (to + 2)..Len(price) :
                     /\ \A m \in (to + 2)..k : price[m] \in Digits
                     /\ (k = Len(price) \/ price[k + 1] \notin Digits)
  IN SubSeq(price, from, last)

\* the listings of filtered that convertCurrency keeps, in order
keptForCurrency == SelectSeq(filtered, LAMBDA r : keepsPrice(r.price, currency))

\* C18: for the target currency GBP every returned listing has a price that
\* contains the pound sign: a kept price without a currency symbol that
\* holds a number becomes the pound sign followed by that number, and a price
\* that already holds the pound sign is returned unchanged.
C18_PoundPricesKeepTheirNumber ==
  (spPc = "returned" /\ currency = "GBP" /\ allResults # <<>>) =>
    /\ Len(converted) = Len(keptForCurrency)
    /\ \A k \in 1..Len(converted) :
         LET before == keptForCurrency[k].price
             after == converted[k].price
         IN /\ includes(after, <<Pound>>)
            /\ includes(before, <<Pound>>) => after = before
            /\ (~hasCurrencySymbol(before) /\ hasDigit(before)) =>
                 after = <<Pound>> \o numberIn(before)

\* the symbol of a currency
currencySign(cur) ==
  CASE cur = "GBP" -> Pound
    [] cur = "USD" -> Dollar
    [] cur = "EUR" -> Euro
    [] cur = "JPY" -> "yen"

\* C19: for a target currency other than GBP, convertCurrency returns just
\* the listings whose price already holds the symbol of that currency, with
\* their price unchanged; a listing whose price holds no currency symbol is
\* dropped.
C19_OtherCurrenciesRequireTheirSymbol ==
  (spPc = "returned" /\ currency # "GBP" /\ allResults # <<>>) =>
    /\ converted = SelectSeq(filtered,
                     LAMBDA r : includes(r.price, <<currencySign(currency)>>))
    /\ \A k \in 1..Len(converted) :
         hasCurrencySymbol(converted[k].price) \/ includes(converted[k].price, <<"yen">>)

\* C20: deduplication is idempotent: deduplicateResults applied to its own
\* output returns that output unchanged.
C20_DedupeIsIdempotent ==
  (spPc = "returned" /\ allResults # <<>>) =>
    deduplicateResults(uniqueResults) = uniqueResults

\* C20's case: deduplicateResults dropped a repeated listing from the
\* working set and kept more than one listing.
C20_Witness ==
  /\ spPc = "returned"
  /\ Len(uniqueResults) >= 2
  /\ \E i, j \in 1..Len(allResults) :
       /\ i < j
       /\ hasRequiredFields(allResults[i])
       /\ allResults[i] = allResults[j]
  /\ Len(uniqueResults) < Len(allResults)
  /\ deduplicateResults(uniqueResults) = uniqueResults

(***************************************************************************)
(* Claims about the order of the steps of performSearch, checked under     *)
(* SpecSearch.                                                             *)
(***************************************************************************)
\* a source fetch of the current phrase has not settled yet
inFlight(s) == fetches[s].state = "pending"

\* C21: within one performSearch call the source fetches of the next phrase
\* start only after every source fetch of the current phrase has settled and
\* the pacing delay has elapsed; deduplication starts only after the fetches
\* of all phrases have settled, and no source fetch is in flight while
\* deduplication, scoring or currency normalization run.
C21_PhrasesSerializedBehindBarrier ==
  [][ /\ (hist'.invoked # hist.invoked /\ termIdx >= 1) =>
           /\ spPc = "delay"
           /\ termIdx' = termIdx + 1
           /\ \A s \in 1..Len(sources) : ~inFlight(s)
      /\ (spPc = "fetching" /\ spPc' = "delay") =>
           \A s \in 1..Len(sources) : ~inFlight(s)
      /\ (spPc = "fetched" /\ spPc' # "fetched") =>
           /\ termIdx = Len(allSearchTerms)
           /\ hist.invoked = Len(sources) * Len(allSearchTerms)
           /\ \A s \in 1..Len(sources) : ~inFlight(s)
      /\ (uniqueResults' # uniqueResults \/ scoredResults' # scoredResults
            \/ converted' # converted) =>
           (spPc = "fetched" /\ \A s \in 1..Len(sources) : ~inFlight(s))
    ]_vars

\* C21's case: the listings of the first phrase are in the working set and
\* the fetches of the second phrase are under way, some settled and some in
\* flight.
C21_Witness ==
  /\ spPc = "fetching"
  /\ termIdx = 2
  /\ allResults # <<>>
  /\ \E s \in 1..Len(sources) : inFlight(s)
  /\ \E s \in 1..Len(sources) : ~inFlight(s)

\* the list performSearch returns for the working set `all`
pipelineOf(all) ==
  IF all = <<>> THEN <<>>
  ELSE convertCurrency(
         filterAndSort(scoreResults(deduplicateResults(all), searchTerm, enhancedQuery)),
         currency)

\* C22: for given results of the fetches of every phrase and source, the
\* list performSearch returns (members, order, order of equal scores, the
\* duplicate that survives) is the same whatever the order in which the
\* fetches of a phrase complete: it is the one computed from the results
\* taken phrase after phrase in the order of the sources.
C22_ResultIndependentOfCompletionOrder ==
  /\ spPc \in {"delay", "fetched", "returned"} => allResults = hist.returned
  /\ spPc = "returned" => converted = pipelineOf(hist.returned)

\* C22's case: in the last phrase the Google Shopping fetch completed before
\* the Vinted fetch, both with a listing of the same score, and the list
\* returned has the Vinted listing first.
C22_Witness ==
  /\ spPc = "returned"
  /\ Len(hist.arrived) = 2
  /\ hist.arrived[1].source = "google_shopping"
  /\ hist.arrived[2].source = "vinted"
  /\ \E i, j \in 1..Len(converted) :
       /\ i < j
       /\ converted[i].source = "vinted"
       /\ converted[j].source = "google_shopping"
       /\ converted[i].title = allSearchTerms[termIdx]
       /\ converted[j].title = allSearchTerms[termIdx]
       /\ converted[i].score = converted[j].score

(***************************************************************************)
(* Claims about what overlapping performSearch calls share, checked under  *)
(* SpecEnhance: every call that has listed its phrases is still running    *)
(* its fetching loop.                                                      *)
(***************************************************************************)
\* getLastEnhancedQuery()                             searchService.js 348-350
getLastEnhancedQuery == lastEnhancedQuery

\* C23: concurrent search requests share no mutable state other than the
\* quota counter: what a running performSearch call reads of the enhanced
\* query is what that call wrote, and the enhancement a call works with is
\* the one made from the answer the generative service gave to that call.
C23_CallsShareNoState ==
  \A c \in 1..Len(enhCalls) :
    /\ enhCalls[c].pc = "listed" =>
         getLastEnhancedQuery = termsObject(enhancedQueryOf(enhCalls[c].result))
    /\ enhCalls[c].pc \in {"resolved", "listed"} =>
         /\ enhCalls[c].outbound = 1
         /\ enhCalls[c].result = enhancementOf(enhCalls[c].query, enhCalls[c].service).result

(***************************************************************************)
(* Claims about the waits of fetchPage, checked under SpecFetch.           *)
(***************************************************************************)
\* C24: after the k-th failed attempt of a fetchPage call, when it is not
\* the last allowed attempt, the wait before the next request lies in
\* [10000 * 2^(k-1), 10000 * 2^(k-1) + 1000) ms when the failure was HTTP 429
\* and is exactly 1000 * k ms otherwise; after the last allowed attempt has
\* failed the error is thrown without any wait.
C24_BackoffWaits ==
  LET k == Len(fpFailures)
  IN /\ fpPc = "wait" =>
          /\ k >= 1
          /\ k <= maxRetries
          /\ fpFailures[k] = "429" =>
               (fpWait >= 10000 * 2^(k - 1) /\ fpWait < 10000 * 2^(k - 1) + 1000)
          /\ fpFailures[k] # "429" => fpWait = 1000 * k
     /\ (fpPc = "threw" /\ k >= 1) => (k = maxRetries + 1 /\ fpWait = 0)
     /\ fpPc \in {"request", "returned"} => fpWait = 0

\* C24's case: the first attempt failed with another error, the second with
\* HTTP 429, and the call waits 20.999 s before its third request.
C24_Witness ==
  /\ fpPc = "wait"
  /\ fpFailures = <<"other", "429">>
  /\ fpWait = 20999
  /\ fpRequests = 2

(***************************************************************************)
(* Claims about the effects of enhanceSearchQuery, checked under           *)
(* SpecEnhance.                                                            *)
(***************************************************************************)
\* the state outside the enhancer's cache
outsideCache == <<lastEnhancedQuery, fetchVars, googleVars, nicheVars, searchVars, serverVars>>

\* C25: an enhanceSearchQuery call for a term that is in the cache returns
\* the cached value and makes no outbound call; a call for a term that is
\* not in the cache makes exactly one outbound call to the generative
\* service and changes no process state other than the cache entry of its
\* term.
C25_CacheHitSilentMissOneCall ==
  [][ /\ Len(enhCalls') = Len(enhCalls) + 1 =>
           LET call == enhCalls'[Len(enhCalls')]
           IN /\ cache' = cache
              /\ UNCHANGED outsideCache
              /\ IF call.query \in DOMAIN cache
                 THEN /\ call.outbound = 0
                      /\ call.pc = "resolved"
                      /\ call.result = cache[call.query]
                 ELSE /\ call.outbound = 1
                      /\ call.pc = "awaiting"
      /\ \A c \in 1..Len(enhCalls) :
           /\ enhCalls'[c].outbound = enhCalls[c].outbound
           /\ enhCalls[c].pc # "awaiting" => enhCalls'[c].result = enhCalls[c].result
           /\ (enhCalls[c].pc = "awaiting" /\ enhCalls'[c].pc = "resolved") =>
                /\ enhCalls[c].outbound = 1
                /\ UNCHANGED outsideCache
                /\ \A q \in (DOMAIN cache \cup DOMAIN cache') \ {enhCalls[c].query} :
                     /\ q \in DOMAIN cache
                     /\ q \in DOMAIN cache'
                     /\ cache'[q] = cache[q]
    ]_vars

\* C25's case: a first call for a term went to the generative service once
\* and its value was cached; a second call for the same term was answered
\* with the cached value and no outbound call.
C25_Witness ==
  /\ Len(enhCalls) = 2
  /\ enhCalls[1].query = enhCalls[2].query
  /\ enhCalls[1].outbound = 1
  /\ enhCalls[1].service.body.kind = "object"
  /\ enhCalls[2].outbound = 0
  /\ enhCalls[2].pc = "resolved"
  /\ enhCalls[2].result = cache[enhCalls[2].query]
  /\ enhCalls[2].result = enhCalls[1].result

(***************************************************************************)
(* Claims about the source bonus of scoring, checked under SpecPipeline.   *)
(* EbayApiService.searchItems tags its listings 'ebay_api'                 *)
(* (nicheSearchService.js 313-319); the eBay scraper tags its own 'ebay'.  *)
(***************************************************************************)
primarySource == "ebay_api"

RECURSIVE expectedAttempts(_, _)
expectedAttempts(https, a) ==
  IF a < 3 /\ https[a] = "429" THEN expectedAttempts(https, a + 1) ELSE a

\* C27: a Google Shopping request that is answered with HTTP 429 is retried:
\* tryGoogleShoppingSearch makes at most 3 attempts for the phrase, waits
\* 2000 ms and then 4000 ms between them, and throws on any other error and
\* on a 429 at the last attempt.
C27_RateLimitedGoogleRequestIsRetried ==
  (gsPc = "done" /\ gsKeySet) =>
    LET n == expectedAttempts(gsHttp, 1)
    IN /\ gsRun.attempts = n
       /\ gsRun.attempts <= 3
       /\ gsRun.waits = SubSeq(<<2000, 4000>>, 1, n - 1)
       /\ gsRun.outcome = (IF gsHttp[n] = "ok" THEN "returned" ELSE "threw")

(***************************************************************************)
(* Claims about searchNicheMarketplaces, checked under SpecNiche.          *)
(***************************************************************************)
\* the URL is of the domain or of one of its sub-domains
belongsTo(u, domain) ==
  /\ u.host # <<>>
  /\ u.host[Len(u.host)] = domain
  /\ \A i \in 1..(Len(u.host) - 1) : u.host[i] = "www."

\* C28: searchNicheMarketplaces scrapes only URLs that belong to one of the
\* allowed niche marketplace domains, scrapes each of them at most once per
\* call, and a failure to scrape one URL does not keep the remaining URLs
\* from being scraped.
C28_OnlyNicheUrlsScrapedOnce ==
  /\ \A k \in 1..Len(scraped) :
       \E domain \in NICHE_MARKETPLACE_DOMAINS : belongsTo(scraped[k], domain)
  /\ \A j, k \in 1..Len(scraped) : scraped[j] = scraped[k] => j = k
  /\ nsPc = "returned" =>
       \A i \in 1..Len(googleLinks) :
         (\E domain \in NICHE_MARKETPLACE_DOMAINS : belongsTo(googleLinks[i], domain)) =>
           \E k \in 1..Len(scraped) : scraped[k] = googleLinks[i]

(***************************************************************************)
(* Termination.  The process runs one fetchPage call, with any maxRetries, *)
(* or one performSearch call, whose scrapers call fetchPage with the       *)
(* default maxRetries and the key set, and which fetches one phrase or     *)
(* two.  Every outbound call settles and every timer fires: the steps that *)
(* follow a call are weakly fair.                                          *)
(***************************************************************************)
fetchPageOnly == spPc = "idle"
performSearchOnly == fpPc = "idle" /\ maxRetries = DefaultMaxRetries /\ apiKeySet

\* the enhancements that give one phrase and two phrases to fetch
ShortEnhanceOutcomes ==
  {resolved(termsObject(<<>>)), resolved(termsObject(<<numberTerm>>))}

\* the steps that follow the two calls
TerminationSteps ==
  \/ fetchPageOnly /\ ResponseOk
  \/ \E k \in FailureKinds, j \in Jitters : fetchPageOnly /\ ResponseError(k, j)
  \/ fetchPageOnly /\ TimerFired
  \/ \E outcome \in ShortEnhanceOutcomes : EnhanceSettles(outcome)
  \/ \E s \in 1..Len(sources) : SourceSettles(s)
  \/ AllSettled
  \/ DelayElapsed
  \/ FinishSearch

TerminationNext ==
  \/ fetchPageOnly /\ FetchPageCall
  \/ fetchPageOnly /\ ResponseOk
  \/ \E k \in FailureKinds, j \in Jitters : fetchPageOnly /\ ResponseError(k, j)
  \/ fetchPageOnly /\ TimerFired
  \/ \E term \in SearchTerms, cur \in SearchCurrencies :
       performSearchOnly /\ performSearch(term, cur)
  \/ \E outcome \in ShortEnhanceOutcomes : EnhanceSettles(outcome)
  \/ \E s \in 1..Len(sources) : SourceSettles(s)
  \/ AllSettled
  \/ DelayElapsed
  \/ FinishSearch

SpecTerminates ==
  FetchInit /\ [][TerminationNext]_vars /\ WF_vars(TerminationSteps)

\* C29: every fetchPage call terminates: for any maxRetries >= 0 and any
\* sequence of request outcomes it returns content or throws after at most
\* maxRetries + 1 attempts; and every performSearch call eventually returns
\* a list or throws, provided every outbound call and every timer completes.
C29_CallsTerminate ==
  /\ [](fpRequests <= maxRetries + 1)
  /\ (fpPc \notin {"idle", "returned", "threw"}) ~> (fpPc \in {"returned", "threw"})
  /\ (spPc # "idle") ~> (spPc \in {"returned", "threw"})

\* C29's case: a fetchPage call with the default maxRetries has thrown after
\* six failed attempts and five waits.
C29_Witness ==
  /\ fpPc = "threw"
  /\ maxRetries = DefaultMaxRetries
  /\ fpRequests = 6
  /\ Len(fpFailures) = 6
  /\ spPc = "idle"

(***************************************************************************)
(* Claims about what deduplication removes, checked under SpecPipeline.    *)
(***************************************************************************)
normalizedPrice(result) == trim(toLowerCase(result.price))

\* the listing at position j of the working set is not in the deduplicated
\* list
removedAt(j) ==
  \A k \in 1..Len(uniqueResults) : uniqueResults[k] # allResults[j]

\* C30: deduplicateResults removes a valid listing only if an earlier
\* listing of the input has the same normalized title (lower-cased, trimmed,
\* whitespace collapsed) and the same normalized price (lower-cased,
\* trimmed); listings that differ in normalized title or in normalized price
\* are never treated as duplicates of each other.
C30_RemovesOnlyTrueDuplicates ==
  (spPc = "returned" /\ allResults # <<>>) =>
    \A j \in 1..Len(allResults) :
      (hasRequiredFields(allResults[j]) /\ removedAt(j)) =>
        \E i \in 1..(j - 1) :
          /\ normalizedTitle(allResults[i]) = normalizedTitle(allResults[j])
          /\ normalizedPrice(allResults[i]) = normalizedPrice(allResults[j])

(***************************************************************************)
(* Claims about prices tagged with another currency, checked under         *)
(* SpecPipeline.                                                           *)
(***************************************************************************)
\* the price names a currency other than pounds, by symbol or by code
foreignTagged(price) ==
  \/ includes(price, <<Dollar>>)
  \/ includes(price, <<Euro>>)
  \/ includes(price, <<"U", "S", "D">>)
  \/ includes(price, <<"E", "U", "R">>)

\* C31: for the target currency GBP, convertCurrency never returns a listing
\* whose original price was tagged with a different currency (such as the
\* currency-code form "USD 5" of the API sources) rewritten as a pound
\* price: such a listing is dropped.
C31_ForeignPricesDroppedForPounds ==
  (spPc = "returned" /\ currency = "GBP") =>
    \A j \in 1..Len(allResults) :
      foreignTagged(allResults[j].price) =>
        \A k \in 1..Len(converted) : converted[k].link # allResults[j].link

(***************************************************************************)
(* Claims about overlapping enhanceSearchQuery calls, checked under        *)
(* SpecEnhance.                                                            *)
(***************************************************************************)
\* calls c and d are for the same query and one started while the other was
\* waiting for the service
overlapping(c, d) ==
  /\ c # d
  /\ enhCalls[c].query = enhCalls[d].query
  /\ (c \in enhCalls[d].overlaps \/ d \in enhCalls[c].overlaps)

\* the completion of call c settles in this step, after that of every call
\* it overlaps, of which there is at least one
completesLast(c) ==
  /\ enhCalls[c].pc = "awaiting"
  /\ enhCalls'[c].pc = "resolved"
  /\ \E d \in 1..Len(enhCalls) : overlapping(c, d)
  /\ \A d \in 1..Len(enhCalls) : overlapping(c, d) => enhCalls[d].pc # "awaiting"

\* a call for an uncached query starts in this step while another call for
\* the query is in flight
startsOverlapping ==
  /\ Len(enhCalls') = Len(enhCalls) + 1
  /\ enhCalls'[Len(enhCalls')].query \notin DOMAIN cache
  /\ inFlightFor(enhCalls'[Len(enhCalls')].query) # {}

\* C32 as stated: overlapping calls for the same uncached term each make
\* their own outbound call, and the cache entry of the term ends up holding
\* the result of whichever call completes last.
C32_LastCompletionIsCached ==
  [][ /\ startsOverlapping =>
           LET call == enhCalls'[Len(enhCalls')]
           IN /\ call.outbound = 1
              /\ call.pc = "awaiting"
              /\ \A c \in inFlightFor(call.query) :
                   enhCalls'[c].pc = "awaiting" /\ enhCalls'[c].outbound = 1
      /\ \A c \in 1..Len(enhCalls) :
           completesLast(c) =>
             /\ enhCalls[c].query \in DOMAIN cache'
             /\ cache'[enhCalls[c].query] = enhCalls'[c].result
    ]_vars

\* C32, amended: overlapping calls for the same uncached term each make
\* their own outbound call; when the call that completes last got an answer
\* from the service, the cache entry of the term holds that call's result,
\* and when its service call threw, the cache is left as the earlier
\* completions made it.
C32_LastAnsweredCompletionIsCached ==
  [][ /\ startsOverlapping =>
           LET call == enhCalls'[Len(enhCalls')]
           IN /\ call.outbound = 1
              /\ call.pc = "awaiting"
              /\ \A c \in inFlightFor(call.query) :
                   enhCalls'[c].pc = "awaiting" /\ enhCalls'[c].outbound = 1
      /\ \A c \in 1..Len(enhCalls) :
           completesLast(c) =>
             IF enhCalls'[c].service.rejects
             THEN cache' = cache
             ELSE /\ enhCalls[c].query \in DOMAIN cache'
                  /\ cache'[enhCalls[c].query] = enhCalls'[c].result
    ]_vars

\* C32's case: two calls for the same term were both in flight, each with
\* its own outbound call; the one that started second completed first with
\* six phrases, the one that started first completed last with no phrases,
\* and the cache holds the result of the latter.
C32_Witness ==
  /\ Len(enhCalls) = 2
  /\ enhCalls[2].overlaps = {1}
  /\ enhCalls[1].outbound = 1
  /\ enhCalls[2].outbound = 1
  /\ enhCalls[1].pc = "resolved"
  /\ enhCalls[2].pc = "listed"
  /\ Len(enhCalls[2].result.search_terms) = 6
  /\ enhCalls[1].result = termsObject(<<>>)
  /\ cache[enhCalls[1].query] = enhCalls[1].result

(***************************************************************************)
(* Claims about which fallbacks are cached, checked under SpecRefill.      *)
(***************************************************************************)
completed(c) == enhCalls[c].pc # "awaiting"

\* call d is for the query of call c and started after c completed
startedAfter(d, c) ==
  /\ d > c
  /\ enhCalls[d].query = enhCalls[c].query
  /\ c \notin enhCalls[d].overlaps

\* call d is the first call for the query of call c that started after c
\* completed
nextAfter(d, c) ==
  /\ startedAfter(d, c)
  /\ \A e \in (c + 1)..(d - 1) : ~startedAfter(e, c)

\* call c returned the fallback because its service call threw
threwFallback(c) ==
  completed(c) /\ enhCalls[c].outbound = 1 /\ enhCalls[c].service.rejects

\* call c returned the fallback because the response was unparsable or
\* ill-shaped
illShapedFallback(c) ==
  /\ completed(c)
  /\ enhCalls[c].outbound = 1
  /\ ~enhCalls[c].service.rejects
  /\ ~wellFormed(enhCalls[c].service.body)

\* call e got a response from the service and stored its result before call
\* d started
storedBefore(e, d) ==
  /\ e < d
  /\ enhCalls[e].query = enhCalls[d].query
  /\ e \notin enhCalls[d].overlaps
  /\ enhCalls[e].outbound = 1
  /\ ~enhCalls[e].service.rejects

\* C33 as stated: a fallback returned because the service call threw is not
\* cached, so the next call for the term contacts the service again; a
\* fallback returned because the response was unparsable or ill-shaped is
\* cached, so every later call for the term returns the fallback without
\* contacting the service.
C33_OnlyIllShapedFallbackIsCached ==
  \A c, d \in 1..Len(enhCalls) :
    /\ (threwFallback(c) /\ nextAfter(d, c)) => enhCalls[d].outbound = 1
    /\ (illShapedFallback(c) /\ startedAfter(d, c)) =>
         /\ enhCalls[d].outbound = 0
         /\ enhCalls[d].result = fallbackEnhancement(enhCalls[c].query)

\* C33, amended: a call whose service call threw stores nothing, so the
\* next call for the term contacts the service again unless another call
\* for the term stored its result before that next call started; a call
\* whose response was unparsable or ill-shaped stores the fallback, so every
\* later call for the term is answered from the cache without contacting
\* the service, with the fallback or with the result that a call
\* overlapping the first one stored over it.
C33_FallbackCachedUnlessThrown ==
  \A c, d \in 1..Len(enhCalls) :
    /\ (threwFallback(c) /\ nextAfter(d, c)) =>
         (enhCalls[d].outbound = 1 <=>
            ~\E e \in 1..Len(enhCalls) : e # c /\ storedBefore(e, d))
    /\ (illShapedFallback(c) /\ startedAfter(d, c)) =>
         /\ enhCalls[d].outbound = 0
         /\ \/ enhCalls[d].result = fallbackEnhancement(enhCalls[c].query)
            \/ \E e \in 1..Len(enhCalls) :
                 /\ overlapping(c, e)
                 /\ storedBefore(e, d)
                 /\ enhCalls[d].result = enhCalls[e].result

\* C33's case: the service call of the first call threw, the second call
\* for the term contacted the service and got text that is not JSON, and
\* the third call was answered with the fallback from the cache.
C33_Witness ==
  /\ Len(enhCalls) = 3
  /\ threwFallback(1)
  /\ nextAfter(2, 1)
  /\ enhCalls[2].outbound = 1
  /\ illShapedFallback(2)
  /\ enhCalls[2].service.body = unparsable
  /\ startedAfter(3, 2)
  /\ enhCalls[3].outbound = 0
  /\ enhCalls[3].result = fallbackEnhancement(cam)

(***************************************************************************)
(* Claims about requests with an invalid search term, checked under        *)
(* SpecHandler.                                                            *)
(***************************************************************************)
\* the search_term of the body is missing, empty or not a string
invalidTerm(body) ==
  \/ body.search_term.t = "undefined"
  \/ body.search_term.t # "string"
  \/ body.search_term.v = <<>>

\* C34: a /search request whose search_term is missing, empty or not a
\* string is answered 400 'Invalid search term' without a call of the quota
\* gate or of performSearch, so it never consumes quota: the quota changes
\* only in the gate's check of a request with a valid term.
C34_InvalidTermAnsweredBeforeGate ==
  [][ /\ \A i \in 1..Len(reqs') :
           invalidTerm(reqs'[i].body) =>
             /\ reqs'[i].pc = "done"
             /\ reqs'[i].response.status = 400
             /\ reqs'[i].response.error = "Invalid search term"
             /\ reqs'[i].gateCalls = 0
             /\ reqs'[i].searchCalls = 0
             /\ reqs'[i].checkDay = notChecked
      /\ (Len(reqs') = Len(reqs) + 1 /\ invalidTerm(reqs'[Len(reqs')].body)) =>
           quota' = quota
      /\ quota' # quota =>
           \E i \in 1..Len(reqs) :
             /\ ~invalidTerm(reqs[i].body)
             /\ reqs[i].pc = "gate"
             /\ reqs'[i].pc # "gate"
    ]_vars

\* C34's case: a caller's request with a valid term used up the caller's
\* quota and a request with an empty term was answered 400; no quota record
\* other than that caller's exists.
C34_Witness ==
  /\ Len(reqs) = 2
  /\ reqs[1].rateLimit.allowed
  /\ reqs[1].searchCalls = 1
  /\ countOf(quotaKey(reqs[1].userIdentifier, reqs[1].checkDay)) = dailyLimit
  /\ reqs[2].body.search_term = str(<<>>)
  /\ reqs[2].response.status = 400
  /\ reqs[2].gateCalls = 0
  /\ DOMAIN quota = {quotaKey(reqs[1].userIdentifier, reqs[1].checkDay)}

====
